---------------------------- MODULE Spec2Model ----------------------------
(***************************************************************************)
(* Batch-orchestration core of markitdown: the content-addressed           *)
(* ConversionCache (_cache.py), convert_batch and write_batch_results      *)
(* (_batch.py), the token estimator (_token_estimator.py) and the CLI      *)
(* batch handler (__main__.py).                                            *)
(***************************************************************************)
EXTENDS Integers, Sequences, FiniteSets, TLC

(***************************************************************************)
(* Bounds of the model.                                                    *)
(***************************************************************************)
\* number of flushes in which one entry file reaches the disk
NChunks == 2
\* number of threads that call ConversionCache.put at the same time
NumWriters == 2
\* width of the ThreadPoolExecutor of convert_batch (max_workers)
MaxWorkers == 2
\* number of times the environment rewrites a source file
MaxModify == 1
\* number of convert_batch runs over one cache directory
MaxRuns == 2

(***************************************************************************)
(* Source files.  A file has a path and a byte content; content 0 is the   *)
(* empty file, Missing stands for a path that is not a file.               *)
(***************************************************************************)
Missing == -1
Contents == {0, 1, 2}
Files == {"in/a.txt", "in/a.csv", "in/sub/a.txt", "in/p.raw", "in/u.bin", "in/a.bad",
          "http://h/a.txt"}

\* a source that is no local path
IsUrl(f) == f = "http://h/a.txt"

\* Path(f).parts, Path(f).stem and Path(f).suffix of the paths above
PathParts(f) ==
    CASE f = "in/a.txt"     -> [dirs |-> <<"in">>, stem |-> "a", suffix |-> ".txt"]
      [] f = "in/a.csv"     -> [dirs |-> <<"in">>, stem |-> "a", suffix |-> ".csv"]
      [] f = "in/sub/a.txt" -> [dirs |-> <<"in", "sub">>, stem |-> "a", suffix |-> ".txt"]
      [] f = "in/p.raw"     -> [dirs |-> <<"in">>, stem |-> "p", suffix |-> ".raw"]
      [] f = "in/u.bin"     -> [dirs |-> <<"in">>, stem |-> "u", suffix |-> ".bin"]
      [] f = "in/a.bad"     -> [dirs |-> <<"in">>, stem |-> "a", suffix |-> ".bad"]
      [] f = "http://h/a.txt" -> [dirs |-> <<"http:", "h">>, stem |-> "a", suffix |-> ".txt"]
      [] f = "in/i.png"     -> [dirs |-> <<"in">>, stem |-> "i", suffix |-> ".png"]
      [] f = "in/I.JPG"     -> [dirs |-> <<"in">>, stem |-> "I", suffix |-> ".JPG"]
      [] f = "in/d.pptx"    -> [dirs |-> <<"in">>, stem |-> "d", suffix |-> ".pptx"]

\* Path.is_file()
IsFile(cont, f) == cont[f] # Missing

(***************************************************************************)
(* ConversionQuality and DocumentConverterResult.                          *)
(***************************************************************************)
NoQuality ==
    [present |-> FALSE, confidence |-> 0, converter_used |-> "None",
     formatting_loss |-> <<>>, metrics |-> {}]

\* ConversionQuality(): the default record, 100% confidence
DefaultQuality ==
    [present |-> TRUE, confidence |-> 100, converter_used |-> "None",
     formatting_loss |-> <<>>, metrics |-> {}]

Quality(conf, conv, loss, mets) ==
    [present |-> TRUE, confidence |-> conf, converter_used |-> conv,
     formatting_loss |-> loss, metrics |-> mets]

\* FormattingLossType member <-> its value
LossValue(m) ==
    CASE m = "FormattingLossType.TABLE" -> "table"
      [] m = "FormattingLossType.IMAGE" -> "image"
      [] OTHER -> "unknown"

LossMembers == {"FormattingLossType.TABLE", "FormattingLossType.IMAGE"}

\* ConversionQuality.set_metric(key, True)
SetMetric(q, key) == [q EXCEPT !.metrics = @ \cup {key}]

\* ConversionQuality.to_dict
QualityToDict(q) ==
    [isdict |-> TRUE, confidence |-> q.confidence, converter_used |-> q.converter_used,
     formatting_loss |-> [i \in 1..Len(q.formatting_loss) |-> LossValue(q.formatting_loss[i])],
     metrics |-> q.metrics]

NullDict ==
    [isdict |-> FALSE, confidence |-> 0, converter_used |-> "None",
     formatting_loss |-> <<>>, metrics |-> {}]

\* ConversionQuality.from_dict: the inverse of to_dict; a formatting-loss
\* value that names no member is dropped
QualityFromDict(d) ==
    LET known(v) == \E m \in LossMembers : LossValue(m) = v
        member(v) == CHOOSE m \in LossMembers : LossValue(m) = v
        keep == SelectSeq(d.formatting_loss, known)
    IN  [present |-> TRUE, confidence |-> d.confidence, converter_used |-> d.converter_used,
         formatting_loss |-> [i \in 1..Len(keep) |-> member(keep[i])],
         metrics |-> d.metrics]

\* DocumentConverterResult(markdown, title=, quality=, metadata=)
Result(md, title, q, meta) ==
    [markdown |-> md, title |-> title, quality |-> q, metadata |-> meta]

\* DocumentConverterResult.quality: a result without a quality record hands
\* out the default one
ResultQuality(r) == IF r.quality.present THEN r.quality ELSE DefaultQuality

(***************************************************************************)
(* The converter collaborator, MarkItDown.convert(source): a function of   *)
(* the bytes and of the hints taken from the path (its extension).         *)
(***************************************************************************)
Convert(f, c) ==
    LET sfx == PathParts(f).suffix IN
    CASE IsUrl(f) ->
            [kind |-> "ok", error |-> "None", error_type |-> "None",
             result |-> Result(<<"web">>, "Page",
                               Quality(90, "HtmlConverter", <<>>, {}), "None")]
      [] c = Missing ->
            [kind |-> "error", error |-> "no such file",
             error_type |-> "FileNotFoundError",
             result |-> Result(<<>>, "None", NoQuality, "None")]
      [] sfx = ".txt" ->
            [kind |-> "ok", error |-> "None", error_type |-> "None",
             result |-> Result(IF c = 0 THEN <<>> ELSE <<"text", c>>, "None",
                               Quality(IF c = 2 THEN 50 ELSE 90, "PlainTextConverter",
                                       <<>>, {"charset_detected"}),
                               "None")]
      [] sfx = ".csv" ->
            [kind |-> "ok", error |-> "None", error_type |-> "None",
             result |-> Result(IF c = 0 THEN <<>> ELSE <<"table", c>>, "None",
                               IF c = 0
                               THEN Quality(50, "CsvConverter", <<>>, {"charset_detected"})
                               ELSE Quality(90, "CsvConverter",
                                            <<"FormattingLossType.TABLE">>,
                                            {"charset_detected"}),
                               "None")]
      [] sfx = ".raw" ->
            [kind |-> "ok", error |-> "None", error_type |-> "None",
             result |-> Result(<<"raw", c>>, "Title", NoQuality, "meta")]
      [] sfx = ".bin" ->
            [kind |-> "unsupported", error |-> "no converter",
             error_type |-> "UnsupportedFormatException",
             result |-> Result(<<>>, "None", NoQuality, "None")]
      [] sfx = ".bad" ->
            [kind |-> "error", error |-> "conversion failed",
             error_type |-> "FileConversionException",
             result |-> Result(<<>>, "None", NoQuality, "None")]

(***************************************************************************)
(* ConversionCache: digests, entry files, serialization.                   *)
(***************************************************************************)
\* hashlib.sha256 of the file content, as hex digits; distinct contents have
\* distinct digests
Sha256(c) ==
    CASE c = 0 -> <<"e", "3", "b">>
      [] c = 1 -> <<"e", "3", "7">>
      [] c = 2 -> <<"6", "b", "8">>

Digests == {Sha256(c) : c \in Contents}

\* a key that follows the path and not the bytes
compute_file_hash_of_path(cont, f) ==
    IF IsFile(cont, f) THEN [ok |-> TRUE, hash |-> Sha256(IF f = "in/sub/a.txt" THEN 2 ELSE 1)]
    ELSE [ok |-> FALSE, hash |-> <<>>]

\* ConversionCache.compute_file_hash: raises OSError when the file cannot be read
compute_file_hash(cont, f) ==
    IF IsFile(cont, f) THEN [ok |-> TRUE, hash |-> Sha256(cont[f])]
    ELSE [ok |-> FALSE, hash |-> <<>>]

\* an entry file named after the shard alone
get_cache_path_of_shard(h) ==
    <<SubSeq(h, 1, 2), CHOOSE g \in Digests : SubSeq(g, 1, 2) = SubSeq(h, 1, 2)>>

\* ConversionCache._get_cache_path: <first 2 characters>/<digest>.json
get_cache_path(h) == <<SubSeq(h, 1, 2), h>>

\* the file names a shard directory may hold
CachePaths == {<<SubSeq(h, 1, 2), g>> : h \in Digests, g \in Digests}

\* CacheEntry built by put (lines 250-265)
MetaToDict(meta) == IF meta \in {"None", "empty"} THEN "None" ELSE meta

MakeEntry(h, r) ==
    [file_hash |-> h, markdown |-> r.markdown, title |-> r.title,
     quality_dict |-> IF r.quality.present THEN QualityToDict(r.quality) ELSE NullDict,
     metadata_dict |-> MetaToDict(r.metadata)]

EntryKeys == <<"file_hash", "markdown", "title", "quality_dict", "metadata_dict">>

\* CacheEntry.to_dict followed by json.dump: the text of the entry file, one
\* token per key
JsonDump(e) ==
    << <<"file_hash", e.file_hash>>, <<"markdown", e.markdown>>, <<"title", e.title>>,
       <<"quality_dict", e.quality_dict>>, <<"metadata_dict", e.metadata_dict>> >>

\* a markdown text that holds a lone surrogate: the utf-8 file object of
\* line 281 raises UnicodeEncodeError when it is written
Unencodable(md) == md # <<>> /\ md[1] = "surrogate"

\* a quality dictionary with a metric value json cannot encode (a set):
\* json.dump raises TypeError when it reaches it
Unserializable(d) == d.isdict /\ "set_valued" \in d.metrics

\* line 282: what json.dump has written when it returns or raises; the keys
\* are written in order, one chunk after the other
DumpText(e) ==
    IF Unencodable(e.markdown) THEN SubSeq(JsonDump(e), 1, 1)
    ELSE IF Unserializable(e.quality_dict) THEN SubSeq(JsonDump(e), 1, 3)
    ELSE JsonDump(e)

\* the exception json.dump leaves the with block of line 281 with
DumpError(e) ==
    IF Unencodable(e.markdown) THEN "UnicodeEncodeError"
    ELSE IF Unserializable(e.quality_dict) THEN "TypeError"
    ELSE "None"

\* a position of an entry file that no writer has filled yet
Hole == <<"hole", 0>>

\* bytes that are no utf-8 text: open(..., encoding="utf-8") raises
\* UnicodeDecodeError when json.load reads them
NotUtf8 == << <<"bytes", 255>> >>

Utf8Ok(text) == \A i \in 1..Len(text) : text[i][1] # "bytes"

\* json.load succeeds on a complete text only
JsonOk(text) ==
    /\ Len(text) = Len(EntryKeys)
    /\ \A i \in 1..Len(text) : text[i][1] = EntryKeys[i]

\* json.load followed by CacheEntry.from_dict
from_dict(text) ==
    [file_hash |-> text[1][2], markdown |-> text[2][2], title |-> text[3][2],
     quality_dict |-> text[4][2], metadata_dict |-> text[5][2]]

\* what get returns on a miss
NoEntry ==
    [hit |-> FALSE, raised |-> "None",
     entry |-> [file_hash |-> <<>>, markdown |-> <<>>, title |-> "None",
                quality_dict |-> NullDict, metadata_dict |-> "None"]]

\* a path of the cache directory that holds no file
NoFile == [exists |-> FALSE, mode |-> "rw", ino |-> 0, data |-> <<>>]

(***************************************************************************)
(* The cache directory: CachePaths -> entry file.  The file-system calls   *)
(* put, get and clear make, each returning the new directory and whether   *)
(* the call raised OSError.                                                *)
(***************************************************************************)
\* Path.exists
FsExists(st, p) == st[p].exists

\* a file system on which chmod changes nothing
FsChmodIgnored(st, p, mode) == [ok |-> st[p].exists, st |-> st]

\* Path.chmod: FileNotFoundError when the file is gone
FsChmod(st, p, mode) ==
    IF st[p].exists THEN [ok |-> TRUE, st |-> [st EXCEPT ![p].mode = mode]]
    ELSE [ok |-> FALSE, st |-> st]

\* Path.unlink: FileNotFoundError when the file is gone
FsUnlink(st, p) ==
    IF st[p].exists THEN [ok |-> TRUE, st |-> [st EXCEPT ![p] = NoFile]]
    ELSE [ok |-> FALSE, st |-> st]

\* open(path, "w"): creates the file (inode ino), or truncates the one that
\* is there; PermissionError on a read-only file unless the process is
\* privileged
FsOpenW(st, p, ino, priv) ==
    IF st[p].exists /\ st[p].mode = "ro" /\ ~priv THEN [ok |-> FALSE, st |-> st]
    ELSE IF st[p].exists THEN [ok |-> TRUE, st |-> [st EXCEPT ![p].data = <<>>]]
    ELSE [ok |-> TRUE,
          st |-> [st EXCEPT ![p] = [exists |-> TRUE, mode |-> "rw", ino |-> ino, data |-> <<>>]]]

\* a descriptor opened for append: every write lands at the end of the file
FsWriteAppend(st, p, fd, off, text) ==
    IF ~(st[p].exists /\ st[p].ino = fd) THEN st
    ELSE [st EXCEPT ![p].data = @ \o text]

\* write through a descriptor of inode fd, text at offset off (0-based):
\* the bytes land in the file at p only while p still names that inode
FsWrite(st, p, fd, off, text) ==
    IF ~(st[p].exists /\ st[p].ino = fd) THEN st
    ELSE LET old == st[p].data
             n == IF Len(old) > off + Len(text) THEN Len(old) ELSE off + Len(text)
             new == [i \in 1..n |->
                        IF i > off /\ i <= off + Len(text) THEN text[i - off]
                        ELSE IF i <= Len(old) THEN old[i] ELSE Hole]
         IN  [st EXCEPT ![p].data = new]

(***************************************************************************)
(* ConversionCache.get and ConversionCache.put, run without interruption.  *)
(***************************************************************************)
\* a get that trusts the location: the stored digest is not compared
get_unverified(st, cont, f) ==
    LET hr == compute_file_hash(cont, f) IN
    IF ~hr.ok THEN NoEntry
    ELSE LET p == get_cache_path(hr.hash) IN
         IF ~FsExists(st, p) THEN NoEntry
         ELSE IF ~Utf8Ok(st[p].data) THEN [NoEntry EXCEPT !.raised = "UnicodeDecodeError"]
         ELSE IF ~JsonOk(st[p].data) THEN NoEntry
         ELSE [hit |-> TRUE, raised |-> "None", entry |-> from_dict(st[p].data)]

\* ConversionCache.get: the except clause of line 221 names OSError,
\* JSONDecodeError, KeyError and TypeError; any other exception leaves get
\* (raised names it, and the caller has no entry)
get(st, cont, f) ==
    LET hr == compute_file_hash(cont, f) IN
    IF ~hr.ok THEN NoEntry
    ELSE LET p == get_cache_path(hr.hash) IN
         IF ~FsExists(st, p) THEN NoEntry
         ELSE IF ~Utf8Ok(st[p].data) THEN [NoEntry EXCEPT !.raised = "UnicodeDecodeError"]
         ELSE IF ~JsonOk(st[p].data) THEN NoEntry
         ELSE LET entry == from_dict(st[p].data) IN
              IF entry.file_hash # hr.hash THEN NoEntry
              ELSE [hit |-> TRUE, raised |-> "None", entry |-> entry]

\* ConversionCache.has
has(st, cont, f) == get(st, cont, f).hit

\* lines 271-278 of put: remove the entry file that is there
RemoveExisting(st, p) ==
    IF ~FsExists(st, p) THEN st
    ELSE LET c == FsChmod(st, p, "rw") IN
         IF ~c.ok THEN c.st ELSE FsUnlink(c.st, p).st

\* ConversionCache.put: the cache directory it leaves, and the exception
\* that leaves it; the except clause of line 291 names OSError and TypeError
put_call(st, cont, f, r, priv) ==
    LET hr == compute_file_hash(cont, f) IN
    IF ~hr.ok THEN [st |-> st, raised |-> "None"]
    ELSE LET p == get_cache_path(hr.hash)
             entry == MakeEntry(hr.hash, r)
             st1 == RemoveExisting(st, p)
             o == FsOpenW(st1, p, 0, priv)
             st2 == FsWrite(o.st, p, o.st[p].ino, 0, DumpText(entry))
         IN  IF ~o.ok THEN [st |-> st1, raised |-> "None"]
             ELSE IF DumpError(entry) = "None"
             THEN [st |-> FsChmod(st2, p, "ro").st, raised |-> "None"]
             ELSE IF DumpError(entry) = "TypeError"
             THEN [st |-> st2, raised |-> "None"]
             ELSE [st |-> st2, raised |-> DumpError(entry)]

\* the cache directory after ConversionCache.put
put(st, cont, f, r, priv) == put_call(st, cont, f, r, priv).st

\* a clear that passes over the entries it may not write
clear_writable(st) ==
    LET ps == {p \in CachePaths : st[p].exists /\ st[p].mode = "rw"} IN
    [st |-> [p \in CachePaths |-> IF p \in ps THEN NoFile ELSE st[p]],
     count |-> Cardinality(ps)]

\* ConversionCache.clear: every entry file is made writable and unlinked
clear(st) ==
    LET ps == {p \in CachePaths : st[p].exists} IN
    [st |-> [p \in CachePaths |->
                IF p \in ps THEN FsUnlink(FsChmod(st, p, "rw").st, p).st[p] ELSE st[p]],
     count |-> Cardinality(ps)]

\* ConversionCache.get_stats()["entry_count"]
entry_count(st) == Cardinality({p \in CachePaths : st[p].exists})

\* a reconstruction that leaves the quality record as it was stored
cache_entry_to_result_untagged(entry) ==
    Result(entry.markdown, entry.title,
           IF entry.quality_dict.isdict
           THEN QualityFromDict(entry.quality_dict)
           ELSE NoQuality,
           entry.metadata_dict)

\* cache_entry_to_result
cache_entry_to_result(entry) ==
    Result(entry.markdown, entry.title,
           IF entry.quality_dict.isdict
           THEN SetMetric(QualityFromDict(entry.quality_dict), "from_cache")
           ELSE NoQuality,
           entry.metadata_dict)

VARIABLES
    content,      \* source path -> bytes of the file (Missing: no such file)
    store,        \* the cache directory
    privileged,   \* the process may open read-only files for writing
    modified,     \* number of rewrites of source files so far
    putLog,       \* per file: the result last put for it and still in force
    lastGet,      \* the call of get that has just returned
    wpc,          \* per concurrent writer: the line of put it is about to run
    wfd,          \* per concurrent writer: inode of its open descriptor
    woff,         \* per concurrent writer: chunks it has flushed
    nextIno,      \* next inode number of the cache directory
    rpc,          \* thread w in ConversionCache.get: the line it is about to run
    rgot,         \* what the get of thread w returned
    cb,           \* the progress callback of the command line: lock, counter,
                  \* position of every invoking thread, lines printed
    phase,        \* convert_batch: "idle", "running" or "returned"
    run,          \* number of the convert_batch run
    useCache,     \* convert_batch was given a cache
    width,        \* max_workers
    sources,      \* the sources argument
    fut,          \* per index of sources: state of its unit of work
    held,         \* per index: the BatchItemResult convert_single returned
    items,        \* result.items
    log,          \* per index: what convert_single did (history)
    prev,         \* the previous run: its arguments, its result, and the files
                  \* rewritten between it and this run (history)
    touched,      \* files rewritten since this run was called (history)
    putDigests,   \* digests an entry was ever written for (history)
    cphase,       \* _handle_batch_conversion: the step it is about to run
    args,         \* the parsed command line
    todo,         \* files_to_convert
    existing,     \* existing_outputs: the sources the resolver reported
    resumed,      \* resumed_items
    estimate,     \* token_estimate.files
    mapping,      \* output_mapping of write_batch_results
    outdir,       \* the output directory: the output paths that hold a file
    hist,         \* what the invocations did (history)
    skipErrors,   \* convert_batch: the skip_errors argument
    onProgress,   \* convert_batch: an on_progress callback was supplied
    progress,     \* the items on_progress was called with, in order
    mpc,          \* convert_batch: the line its caller's thread is about to run
    cur,          \* index of the source of item_result
    ck,           \* futures the cancel loop of line 427 has passed
    seqItems,     \* result.items of a max_workers = 1 run from the state of the
                  \* call (history)
    caller,       \* what convert_batch handed to its caller
    late,         \* units started after the caller had seen a FAILED item (history)
    lastPut,      \* the call of put that has just returned or raised
    lastClear,    \* the call of clear that has just returned
    dumpFailed,   \* entry paths whose last put stopped inside json.dump (history)
    summary       \* the derived properties of a BatchConversionResult

fsVars == <<content, store, privileged, modified>>
apiVars == <<putLog, lastGet>>
raceVars == <<wpc, wfd, woff, nextIno, rpc, rgot, cb>>
batchVars == <<phase, run, useCache, width, sources, fut, held, items, log, prev,
               touched, putDigests>>
cliVars == <<cphase, args, todo, existing, resumed, estimate, mapping, outdir, hist>>
poolVars == <<skipErrors, onProgress, progress, mpc, cur, ck, seqItems, caller, late>>
opVars == <<lastPut, lastClear, dumpFailed, summary>>
vars == <<content, store, privileged, modified, putLog, lastGet, wpc, wfd, woff, nextIno,
          rpc, rgot, cb,
          phase, run, useCache, width, sources, fut, held, items, log, prev, touched,
          putDigests, cphase, args, todo, existing, resumed, estimate, mapping, outdir, hist,
          skipErrors, onProgress, progress, mpc, cur, ck, seqItems, caller, late,
          lastPut, lastClear, dumpFailed, summary>>

InitContent ==
    [f \in Files |->
        CASE f = "in/a.txt" -> 1
          [] f = "in/a.csv" -> 1
          [] f = "in/sub/a.txt" -> 2
          [] f = "in/p.raw" -> 2
          [] f = "http://h/a.txt" -> Missing
          [] OTHER -> 0]

EmptyStore == [p \in CachePaths |-> NoFile]

InitFs ==
    /\ content = InitContent
    /\ store = EmptyStore
    /\ privileged \in BOOLEAN
    /\ modified = 0

(***************************************************************************)
(* SpecCache: one client calls put and get on one cache while the          *)
(* environment rewrites the source files.                                  *)
(***************************************************************************)
CacheFiles == {"in/a.txt", "in/a.csv", "in/p.raw"}

SampleResults ==
    {Result(<<"# Test Markdown">>, "Test Title",
            Quality(90, "TestConverter", <<"FormattingLossType.IMAGE">>, {}), "None"),
     Result(<<"# Original">>, "None", NoQuality, "meta")}

NoPut == [present |-> FALSE, result |-> Result(<<>>, "None", NoQuality, "None")]
NoGet == [called |-> FALSE, file |-> "None", res |-> NoEntry]

InitApi ==
    /\ putLog = [f \in Files |-> NoPut]
    /\ lastGet = NoGet

Writers == 1..NumWriters

\* progress_lock free, processed_count[0] = 0, nothing printed, no thread
\* inside progress_callback
NoCallback ==
    [lock |-> 0, count |-> 0, calls |-> 0, out |-> <<>>,
     pc |-> [t \in 1..MaxWorkers |-> "idle"],
     arg |-> [t \in 1..MaxWorkers |-> "None"],
     tmp |-> [t \in 1..MaxWorkers |-> 0]]

InitRaceIdle ==
    /\ wpc = [w \in Writers |-> "idle"]
    /\ wfd = [w \in Writers |-> 0]
    /\ woff = [w \in Writers |-> 0]
    /\ nextIno = 1
    /\ rpc = [w \in Writers |-> "idle"]
    /\ rgot = [w \in Writers |-> NoEntry]
    /\ cb = NoCallback

\* BatchItemResult; idx is the position of the source in the sources
\* argument (history: the future the item came from)
BatchItem(src, status, hasResult, res, err, etype, idx) ==
    [source_path |-> src, status |-> status, has_result |-> hasResult, result |-> res,
     error |-> err, error_type |-> etype, idx |-> idx]

NoResult == Result(<<>>, "None", NoQuality, "None")
NoItem == BatchItem("None", "None", FALSE, NoResult, "None", "None", 0)
NoOutcome == [kind |-> "None", error |-> "None", error_type |-> "None", result |-> NoResult]
NoLog ==
    [got |-> "none", had_entry |-> FALSE, fresh |-> FALSE, converted |-> FALSE,
     out |-> NoOutcome, entry |-> NoEntry.entry]
NoRun ==
    [ran |-> FALSE, sources |-> <<>>, useCache |-> FALSE, items |-> <<>>, touched |-> {}]

InitBatchIdle ==
    /\ phase = "idle"
    /\ run = 0
    /\ useCache = FALSE
    /\ width = 1
    /\ sources = <<>>
    /\ fut = <<>>
    /\ held = <<>>
    /\ items = <<>>
    /\ log = <<>>
    /\ prev = NoRun
    /\ touched = {}
    /\ putDigests = {}

\* an output path: the directories below the output directory, the stem, and
\* the counter n of "<stem>_<n>.md" (0: "<stem>.md")
OutPath(dirs, stem, n) == <<dirs, stem, n>>
NoPath == OutPath(<<>>, "None", 0)

NoMinConfidence == [given |-> FALSE, value |-> 0]
NoArgs ==
    [files |-> <<>>, is_single_directory |-> FALSE, source_directory |-> "None",
     resume |-> FALSE, cache |-> FALSE, min_confidence |-> NoMinConfidence,
     estimate_tokens |-> FALSE]
NoHist ==
    [looked |-> {}, attempted |-> {}, pre |-> <<>>, seen |-> {}, wrote |-> {}, ever |-> {},
     over |-> {}, last |-> [files |-> <<>>, wrote |-> {}, intact |-> FALSE]]

InitCliIdle ==
    /\ cphase = "idle"
    /\ args = NoArgs
    /\ todo = <<>>
    /\ existing = {}
    /\ resumed = <<>>
    /\ estimate = <<>>
    /\ mapping = [f \in Files |-> NoPath]
    /\ outdir = {}
    /\ hist = NoHist

\* what a caller of convert_batch holds before the call has ended
NoCaller == [kind |-> "None", items |-> <<>>, message |-> <<>>]

InitPoolIdle ==
    /\ skipErrors = TRUE
    /\ onProgress = FALSE
    /\ progress = <<>>
    /\ mpc = "idle"
    /\ cur = 0
    /\ ck = 0
    /\ seqItems = <<>>
    /\ caller = NoCaller
    /\ late = {}

NoPutCall == [called |-> FALSE, file |-> "None", raised |-> "None"]
NoClear == [called |-> FALSE, count |-> 0, before |-> 0, cached |-> {}]

\* no derived property was read
NoSummary == [computed |-> FALSE]

InitOpIdle ==
    /\ lastPut = NoPutCall
    /\ lastClear = NoClear
    /\ dumpFailed = {}
    /\ summary = NoSummary

InitCache ==
    /\ InitFs /\ InitApi /\ InitRaceIdle /\ InitBatchIdle /\ InitCliIdle /\ InitPoolIdle
    /\ InitOpIdle

\* cache.put(f, r)
CachePut(f, r) ==
    /\ store' = put(store, content, f, r, privileged)
    /\ putLog' = [g \in Files |->
                    IF g = f
                    THEN [present |-> IsFile(content, f), result |-> r]
                    ELSE IF content[g] = content[f] THEN NoPut ELSE putLog[g]]
    /\ lastGet' = NoGet
    /\ lastClear' = NoClear
    /\ UNCHANGED <<content, privileged, modified>>
    /\ UNCHANGED raceVars
    /\ putDigests' = IF IsFile(content, f) THEN putDigests \cup {Sha256(content[f])}
                      ELSE putDigests
    /\ UNCHANGED <<phase, run, useCache, width, sources, fut, held, items, log, prev, touched>>
    /\ UNCHANGED cliVars
    /\ UNCHANGED poolVars
    /\ UNCHANGED <<lastPut, dumpFailed, summary>>

\* cache.get(f)
CacheGet(f) ==
    /\ lastGet' = [called |-> TRUE, file |-> f, res |-> get(store, content, f)]
    /\ UNCHANGED <<content, store, privileged, modified, putLog>>
    /\ UNCHANGED raceVars
    /\ UNCHANGED batchVars
    /\ UNCHANGED cliVars
    /\ UNCHANGED poolVars
    /\ UNCHANGED opVars

\* the environment rewrites (c in Contents) or removes (Missing) a source file
ModifyFile(f, c) ==
    /\ modified < MaxModify
    /\ c # content[f]
    /\ content' = [content EXCEPT ![f] = c]
    /\ modified' = modified + 1
    /\ putLog' = [putLog EXCEPT ![f] = NoPut]
    /\ lastGet' = NoGet
    /\ UNCHANGED <<store, privileged>>
    /\ UNCHANGED raceVars
    /\ UNCHANGED batchVars
    /\ UNCHANGED cliVars
    /\ UNCHANGED poolVars
    /\ UNCHANGED opVars

\* cache.clear()
CacheClear ==
    /\ LET c == clear(store) IN
        /\ store' = c.st
        /\ lastClear' = [called |-> TRUE, count |-> c.count, before |-> entry_count(store),
                         cached |-> {f \in Files : has(store, content, f)}]
    /\ putLog' = [f \in Files |-> NoPut]
    /\ lastGet' = NoGet
    /\ UNCHANGED <<content, privileged, modified>>
    /\ UNCHANGED raceVars
    /\ putDigests' = {}
    /\ UNCHANGED <<phase, run, useCache, width, sources, fut, held, items, log, prev, touched>>
    /\ UNCHANGED cliVars
    /\ UNCHANGED poolVars
    /\ UNCHANGED <<lastPut, dumpFailed, summary>>

NextCache ==
    \/ \E f \in CacheFiles, r \in SampleResults : CachePut(f, r)
    \/ \E f \in CacheFiles : CacheGet(f)
    \/ \E f \in CacheFiles, c \in Contents \cup {Missing} : ModifyFile(f, c)
    \/ CacheClear

SpecCache == InitCache /\ [][NextCache]_vars

\* C2: a get that follows put(f, r), the content of f unmodified in between,
\* returns an entry, and the entry's markdown and title are those of r.
C2_PutThenGet ==
    \A f \in Files :
        (lastGet.called /\ lastGet.file = f /\ putLog[f].present) =>
            /\ lastGet.res.hit
            /\ lastGet.res.entry.markdown = putLog[f].result.markdown
            /\ lastGet.res.entry.title = putLog[f].result.title

C2_Witness ==
    /\ lastGet.called
    /\ putLog[lastGet.file].present
    /\ lastGet.res.hit
    /\ modified > 0

\* C19: clear removes every entry, the read-only ones too, and returns
\* their number: when it has returned the cache holds no entry, the count
\* it returned is the entry count of the cache just before the call, and
\* get is a miss for every file that had an entry.
C19_ClearRemovesAll ==
    lastClear.called =>
        /\ entry_count(store) = 0
        /\ lastClear.count = lastClear.before
        /\ \A f \in lastClear.cached : ~has(store, content, f)
        /\ (lastGet.called /\ lastGet.file \in lastClear.cached) => ~lastGet.res.hit

C19_Witness ==
    /\ lastClear.called
    /\ lastClear.count = 2
    /\ Cardinality(lastClear.cached) = 3
    /\ lastGet.called
    /\ lastGet.file \in lastClear.cached

\* C21: the cache is keyed by the bytes and not by the path: a get of q is
\* a hit with the markdown last stored for any file whose bytes are those
\* of q (q itself, or a copy or a renamed file), and a miss when no file
\* holding the bytes of q was put since the cache was last cleared.
C21_KeyedByContent ==
    \A q \in CacheFiles :
        (lastGet.called /\ lastGet.file = q) =>
            /\ \A f \in CacheFiles :
                  (putLog[f].present /\ content[f] = content[q]) =>
                      /\ lastGet.res.hit
                      /\ lastGet.res.entry.markdown = putLog[f].result.markdown
            /\ (\A h \in putDigests : ~IsFile(content, q) \/ h # Sha256(content[q])) =>
                  ~lastGet.res.hit

C21_Witness ==
    /\ lastGet.called
    /\ lastGet.res.hit
    /\ ~putLog[lastGet.file].present
    /\ modified > 0
    /\ \E f \in CacheFiles :
          /\ f # lastGet.file
          /\ putLog[f].present
          /\ PathParts(f).suffix # PathParts(lastGet.file).suffix
    /\ \E g \in CacheFiles : IsFile(content, g) /\ ~has(store, content, g)

(***************************************************************************)
(* SpecRace: NumWriters threads run ConversionCache.put at the same time   *)
(* for files of identical content and the same result; every file-system   *)
(* call of put is one step.                                                *)
(***************************************************************************)
\* the file writer w caches: both files hold the same bytes
WriterFile(w) == IF w % 2 = 1 THEN "in/a.txt" ELSE "in/a.csv"

RaceResult == Convert("in/a.txt", InitContent["in/a.txt"]).result
OldResult == Result(<<"stale">>, "None", NoQuality, "None")

RaceDigest == Sha256(InitContent["in/a.txt"])
RacePath == get_cache_path(compute_file_hash(content, "in/a.txt").hash)
RaceText == JsonDump(MakeEntry(RaceDigest, RaceResult))

\* the part of the text that flush k (1..NChunks) carries, and where it starts
ChunkStart(k) == ((k - 1) * Len(RaceText)) \div NChunks

\* put(f, result): the entry path of f, and the text json.dump writes
WPath(f) == get_cache_path(compute_file_hash(content, f).hash)
WResult(f) == Convert("in/a.txt", content[f]).result
WText(f) == JsonDump(MakeEntry(compute_file_hash(content, f).hash, WResult(f)))
ChunkText(f, k) == SubSeq(WText(f), ChunkStart(k) + 1, ChunkStart(k + 1))

InitRace ==
    /\ content = InitContent
    /\ store \in {EmptyStore,
                  put(EmptyStore, InitContent, "in/a.txt", OldResult, FALSE)}
    /\ privileged \in BOOLEAN
    /\ modified = 0
    /\ InitApi
    /\ wpc = [w \in Writers |-> "exists"]
    /\ wfd = [w \in Writers |-> 0]
    /\ woff = [w \in Writers |-> 0]
    /\ nextIno = 1
    /\ rpc = [w \in Writers |-> "idle"]
    /\ rgot = [w \in Writers |-> NoEntry]
    /\ cb = NoCallback
    /\ InitBatchIdle
    /\ InitCliIdle
    /\ InitPoolIdle
    /\ InitOpIdle

RaceFrame ==
    /\ UNCHANGED <<content, privileged, modified, putLog, lastGet>>
    /\ UNCHANGED cb
    /\ UNCHANGED batchVars
    /\ UNCHANGED cliVars
    /\ UNCHANGED poolVars
    /\ UNCHANGED opVars

\* line 272: if cache_path.exists()
WExists(w, f) ==
    /\ wpc[w] = "exists"
    /\ wpc' = [wpc EXCEPT ![w] = IF FsExists(store, WPath(f)) THEN "chmod" ELSE "open"]
    /\ UNCHANGED <<store, wfd, woff, nextIno>>
    /\ UNCHANGED <<rpc, rgot>>
    /\ RaceFrame

\* line 275: cache_path.chmod(writable); OSError skips the unlink
WChmod(w, f) ==
    /\ wpc[w] = "chmod"
    /\ LET c == FsChmod(store, WPath(f), "rw") IN
        /\ store' = c.st
        /\ wpc' = [wpc EXCEPT ![w] = IF c.ok THEN "unlink" ELSE "open"]
    /\ UNCHANGED <<wfd, woff, nextIno>>
    /\ UNCHANGED <<rpc, rgot>>
    /\ RaceFrame

\* line 276: cache_path.unlink(); OSError is passed over
WUnlink(w, f) ==
    /\ wpc[w] = "unlink"
    /\ store' = FsUnlink(store, WPath(f)).st
    /\ wpc' = [wpc EXCEPT ![w] = "open"]
    /\ UNCHANGED <<wfd, woff, nextIno>>
    /\ UNCHANGED <<rpc, rgot>>
    /\ RaceFrame

\* line 281: open(cache_path, "w"); OSError ends put
WOpen(w, f) ==
    /\ wpc[w] = "open"
    /\ LET o == FsOpenW(store, WPath(f), nextIno, privileged) IN
        /\ store' = o.st
        /\ wpc' = [wpc EXCEPT ![w] = IF o.ok THEN "write" ELSE "failed"]
        /\ wfd' = [wfd EXCEPT ![w] = IF o.ok THEN o.st[WPath(f)].ino ELSE 0]
        /\ nextIno' = IF o.ok /\ ~FsExists(store, WPath(f)) THEN nextIno + 1 ELSE nextIno
    /\ UNCHANGED woff
    /\ UNCHANGED <<rpc, rgot>>
    /\ RaceFrame

\* line 282: json.dump, flushed chunk by chunk; the last flush is the close.
\* The text is written with ensure_ascii=False and a flush ends at a byte
\* count, so a flush that is not the last may end inside a multi-byte
\* character (cut): the file then ends with bytes that are no utf-8 text
\* until the next flush completes the character
WWrite(w, f) ==
    /\ wpc[w] = "write"
    /\ \E split \in BOOLEAN :
          LET k == woff[w] + 1
              data == store[WPath(f)].data
              cut == /\ split
                     /\ k < NChunks
                     /\ (Len(data) <= ChunkStart(k + 1) \/ data[ChunkStart(k + 1) + 1] = Hole)
              text == IF cut THEN ChunkText(f, k) \o NotUtf8 ELSE ChunkText(f, k)
          IN  store' = FsWrite(store, WPath(f), wfd[w], ChunkStart(k), text)
    /\ woff' = [woff EXCEPT ![w] = @ + 1]
    /\ wpc' = [wpc EXCEPT ![w] = IF woff[w] + 1 = NChunks THEN "readonly" ELSE "write"]
    /\ UNCHANGED <<wfd, nextIno>>
    /\ UNCHANGED <<rpc, rgot>>
    /\ RaceFrame

\* line 287: cache_path.chmod(CACHE_FILE_PERMISSIONS); OSError is passed over
WReadOnly(w, f) ==
    /\ wpc[w] = "readonly"
    /\ store' = FsChmod(store, WPath(f), "ro").st
    /\ wpc' = [wpc EXCEPT ![w] = "done"]
    /\ UNCHANGED <<wfd, woff, nextIno>>
    /\ UNCHANGED <<rpc, rgot>>
    /\ RaceFrame

NextRace ==
    \E w \in Writers :
        \/ WExists(w, WriterFile(w))
        \/ WChmod(w, WriterFile(w))
        \/ WUnlink(w, WriterFile(w))
        \/ WOpen(w, WriterFile(w))
        \/ WWrite(w, WriterFile(w))
        \/ WReadOnly(w, WriterFile(w))

SpecRace == InitRace /\ [][NextRace]_vars

WritersFinished == \A w \in Writers : wpc[w] \in {"done", "failed"}

\* C4: once all concurrent writers of one content have finished, exactly one
\* entry file exists, it is the complete entry of the digest, and get on the
\* content returns it.
C4_ConcurrentWritersLeaveOneEntry ==
    WritersFinished =>
        /\ \A p \in CachePaths : store[p].exists <=> p = get_cache_path(RaceDigest)
        /\ store[get_cache_path(RaceDigest)].data = RaceText
        /\ \A w \in Writers :
              /\ get(store, content, WriterFile(w)).hit
              /\ get(store, content, WriterFile(w)).entry = MakeEntry(RaceDigest, RaceResult)

\* two writers held the same entry file open, one of them lost the race for
\* the open, and all have finished
C4_Witness ==
    /\ WritersFinished
    /\ \E w \in Writers : wpc[w] = "done"
    /\ \E v, w \in Writers : v # w /\ wfd[v] # 0 /\ wfd[v] = wfd[w]

C4_WitnessLoser ==
    /\ WritersFinished
    /\ \E w \in Writers : wpc[w] = "failed"

\* C27: put never opens an existing entry file for writing, also while
\* another writer is active: whenever a writer's open of line 281 succeeds,
\* no file was at the entry path, so the open created the file.
C27_NeverOpensExisting ==
    [][\A w \in Writers :
          (wpc[w] = "open" /\ wpc'[w] = "write") => ~FsExists(store, RacePath)]_vars

(***************************************************************************)
(* ConversionCache.get, step by step, run by thread w for file f while     *)
(* other threads are inside put.                                           *)
(***************************************************************************)
\* lines 200-206: the digest, then if not cache_path.exists(): return None
GExists(w, f) ==
    /\ rpc[w] = "idle"
    /\ IF compute_file_hash(content, f).ok /\ FsExists(store, WPath(f))
       THEN /\ rpc' = [rpc EXCEPT ![w] = "load"]
            /\ rgot' = rgot
       ELSE /\ rpc' = [rpc EXCEPT ![w] = "returned"]
            /\ rgot' = [rgot EXCEPT ![w] = NoEntry]
    /\ UNCHANGED <<store, wpc, wfd, woff, nextIno>>
    /\ RaceFrame

\* lines 209-219: open and json.load read the file as it is now, then
\* from_dict and the comparison of the digests
GLoad(w, f) ==
    /\ rpc[w] = "load"
    /\ rgot' = [rgot EXCEPT ![w] = get(store, content, f)]
    /\ rpc' = [rpc EXCEPT ![w] = "returned"]
    /\ UNCHANGED <<store, wpc, wfd, woff, nextIno>>
    /\ RaceFrame

\* the thread calls get when its own put has returned
GetAfterPut(w, f) ==
    /\ wpc[w] \in {"done", "failed"}
    /\ GExists(w, f)

(***************************************************************************)
(* SpecShared: NumWriters threads share one ConversionCache; each runs put *)
(* and then get on a file of its own, the files having pairwise distinct   *)
(* content (test_cache_concurrent_access).                                 *)
(***************************************************************************)
\* the file of thread w; the digests of the first two share a shard directory
SharedFile(w) ==
    CASE w = 1 -> "in/a.txt"
      [] w = 2 -> "in/u.bin"
      [] OTHER -> "in/p.raw"

NextShared ==
    \E w \in Writers :
        \/ WExists(w, SharedFile(w))
        \/ WChmod(w, SharedFile(w))
        \/ WUnlink(w, SharedFile(w))
        \/ WOpen(w, SharedFile(w))
        \/ WWrite(w, SharedFile(w))
        \/ WReadOnly(w, SharedFile(w))
        \/ GetAfterPut(w, SharedFile(w))
        \/ GLoad(w, SharedFile(w))

SpecShared == InitRace /\ [][NextShared]_vars

\* C24: threads that put and then get, each its own file of its own content,
\* on one shared cache: no put is refused, no get raises, and the get of
\* every thread is a hit with the entry the thread has just put.
C24_DistinctFilesAllHit ==
    \A w \in Writers :
        /\ wpc[w] # "failed"
        /\ rpc[w] = "returned" =>
              /\ rgot[w].raised = "None"
              /\ rgot[w].hit
              /\ rgot[w].entry = MakeEntry(Sha256(content[SharedFile(w)]),
                                           WResult(SharedFile(w)))

\* a thread has its hit while another thread is in the middle of writing
\* an entry file of the same shard directory
C24_Witness ==
    \E v, w \in Writers :
        /\ v # w
        /\ rpc[v] = "returned"
        /\ rgot[v].hit
        /\ wpc[w] = "write"
        /\ woff[w] > 0
        /\ WPath(SharedFile(v))[1] = WPath(SharedFile(w))[1]

(***************************************************************************)
(* SpecReadRace: while the threads of SpecRace write the entry of one      *)
(* digest, a reader thread per writer calls get for the same content at    *)
(* any moment, and a clear of another cache object removes entry files.    *)
(***************************************************************************)
\* lines 321-326 of clear, for one entry file: chmod to writable, unlink
ClearEntry(p) ==
    /\ modified < MaxModify
    /\ FsExists(store, p)
    /\ store' = FsUnlink(FsChmod(store, p, "rw").st, p).st
    /\ modified' = modified + 1
    /\ UNCHANGED <<content, privileged, putLog, lastGet>>
    /\ UNCHANGED raceVars
    /\ UNCHANGED batchVars
    /\ UNCHANGED cliVars
    /\ UNCHANGED poolVars
    /\ UNCHANGED opVars

NextReadRace ==
    \/ \E w \in Writers :
          \/ WExists(w, WriterFile(w))
          \/ WChmod(w, WriterFile(w))
          \/ WUnlink(w, WriterFile(w))
          \/ WOpen(w, WriterFile(w))
          \/ WWrite(w, WriterFile(w))
          \/ WReadOnly(w, WriterFile(w))
          \/ GExists(w, WriterFile(w))
          \/ GLoad(w, WriterFile(w))
    \/ \E p \in CachePaths : ClearEntry(p)

SpecReadRace == InitRace /\ [][NextReadRace]_vars

\* C29: a get that runs while the entry of its digest is being written or
\* cleared never raises, and returns a miss or a complete entry that was
\* put: the one being written or the one that was there before.
C29_GetMissOrCompleteEntry ==
    \A w \in Writers :
        rpc[w] = "returned" =>
            /\ rgot[w].raised = "None"
            /\ rgot[w].hit =>
                  rgot[w].entry \in {MakeEntry(RaceDigest, RaceResult),
                                     MakeEntry(RaceDigest, OldResult)}

(***************************************************************************)
(* SpecBatch: convert_batch(sources, max_workers=width, cache=...) with    *)
(* skip_errors=True, run up to MaxRuns times over one cache directory; the *)
(* environment rewrites source files between the runs.                     *)
(***************************************************************************)
SourceLists ==
    {<<>>,
     <<"in/a.txt", "in/a.csv">>,
     <<"in/a.txt", "in/u.bin", "in/sub/a.txt">>,
     <<"in/p.raw", "in/a.bad">>,
     <<"in/a.txt", "in/a.txt">>,
     <<"http://h/a.txt", "in/p.raw">>}

Widths == 1..MaxWorkers

\* the files the environment rewrites between runs
Rewritable == {"in/a.txt", "in/a.csv", "in/p.raw"}

Indexes == 1..Len(sources)

\* lines 351-366 of convert_single: the cache is consulted for local files
CacheLookup(st, cont, cacheGiven, f, i) ==
    IF cacheGiven /\ IsFile(cont, f)
    THEN LET e == get(st, cont, f) IN
         IF e.hit
         THEN [cached |-> TRUE,
               item |-> BatchItem(f, "CACHED", TRUE, cache_entry_to_result(e.entry),
                                  "None", "None", i)]
         ELSE [cached |-> FALSE, item |-> NoItem]
    ELSE [cached |-> FALSE, item |-> NoItem]

\* a handler that treats every exception alike
ItemOfOutcomeOneHandler(f, out, i) ==
    IF out.kind = "ok"
    THEN BatchItem(f, "SUCCESS", TRUE, out.result, "None", "None", i)
    ELSE BatchItem(f, "FAILED", FALSE, NoResult, out.error, out.error_type, i)

\* lines 381-401 of convert_single: the item for the converter's outcome
ItemOfOutcome(f, out, i) ==
    CASE out.kind = "ok" ->
            BatchItem(f, "SUCCESS", TRUE, out.result, "None", "None", i)
      [] out.kind = "unsupported" ->
            BatchItem(f, "UNSUPPORTED", FALSE, NoResult, out.error, out.error_type, i)
      [] OTHER ->
            BatchItem(f, "FAILED", FALSE, NoResult, out.error, out.error_type, i)

\* a result keyed by source path: a later item of the same path replaces
\* the earlier one
AppendItemKeyed(its, it) ==
    IF \E k \in 1..Len(its) : its[k].source_path = it.source_path
    THEN [k \in 1..Len(its) |-> IF its[k].source_path = it.source_path THEN it ELSE its[k]]
    ELSE Append(its, it)

\* lines 407 and 422: result.items.append(item)
AppendItem(its, it) == Append(its, it)

\* BatchItemResult.markdown and BatchItemResult.quality
ItemMarkdown(it) == it.result.markdown
ItemQuality(it) == IF it.has_result THEN ResultQuality(it.result) ELSE NoQuality

InitBatch ==
    /\ content = InitContent
    /\ store = EmptyStore
    /\ privileged = FALSE
    /\ modified = 0
    /\ InitApi
    /\ InitRaceIdle
    /\ InitBatchIdle
    /\ InitCliIdle
    /\ InitPoolIdle
    /\ InitOpIdle

BatchFrame ==
    /\ UNCHANGED <<privileged, putLog, lastGet>>
    /\ UNCHANGED raceVars
    /\ UNCHANGED cliVars
    /\ UNCHANGED poolVars
    /\ UNCHANGED opVars

\* convert_batch is called
StartRun(srcs, c, w) ==
    /\ phase \in {"idle", "returned"}
    /\ run < MaxRuns
    /\ phase = "returned" => srcs = sources
    /\ phase' = "running"
    /\ run' = run + 1
    /\ useCache' = c
    /\ width' = w
    /\ sources' = srcs
    /\ fut' = [i \in 1..Len(srcs) |-> "queued"]
    /\ held' = [i \in 1..Len(srcs) |-> NoItem]
    /\ log' = [i \in 1..Len(srcs) |-> NoLog]
    /\ items' = <<>>
    /\ prev' = IF phase = "returned"
               THEN [ran |-> TRUE, sources |-> sources, useCache |-> useCache,
                     items |-> items, touched |-> touched]
               ELSE prev
    /\ touched' = {}
    /\ UNCHANGED <<content, store, modified, putDigests>>
    /\ BatchFrame

\* a unit of work may start: with max_workers = 1 the sources are handled
\* one after the other by the caller; otherwise the pool takes them in
\* submission order while a worker is free
MayStart(i) ==
    IF width = 1
    THEN \A j \in Indexes : j < i => fut[j] = "done"
    ELSE /\ \A j \in Indexes : j < i => fut[j] # "queued"
         /\ Cardinality({j \in Indexes : fut[j] = "conv"}) < width

\* convert_single, lines 347-366: the cache lookup of source i; on a hit
\* the unit is finished and the caller appends its item
Lookup(i) ==
    /\ phase = "running"
    /\ fut[i] = "queued"
    /\ MayStart(i)
    /\ LET f == sources[i]
           r == CacheLookup(store, content, useCache, f, i)
           looked == useCache /\ IsFile(content, f)
       IN  /\ fut' = [fut EXCEPT ![i] = IF r.cached THEN "done" ELSE "conv"]
           /\ held' = [held EXCEPT ![i] = r.item]
           /\ items' = IF r.cached THEN AppendItem(items, r.item) ELSE items
           /\ log' = [log EXCEPT ![i] =
                        [@ EXCEPT !.got = IF ~looked THEN "none"
                                          ELSE IF r.cached THEN "hit" ELSE "miss",
                                  !.had_entry = has(store, content, f),
                                  !.fresh = IsFile(content, f)
                                            /\ Sha256(content[f]) \notin putDigests,
                                  !.entry = get(store, content, f).entry]]
    /\ UNCHANGED <<phase, run, useCache, width, sources, prev, touched, putDigests>>
    /\ UNCHANGED <<content, store, modified>>
    /\ BatchFrame

\* convert_single, lines 368-401: the conversion of source i and the
\* cache.put of its result; lines 406-407 and 420-422: the caller appends
\* the item of the finished unit
Attempt(i) ==
    /\ phase = "running"
    /\ fut[i] = "conv"
    /\ LET f == sources[i]
           out == Convert(f, content[f])
           stores == out.kind = "ok" /\ useCache /\ IsFile(content, f)
       IN  /\ store' = IF stores THEN put(store, content, f, out.result, privileged)
                        ELSE store
           /\ putDigests' = IF stores THEN putDigests \cup {Sha256(content[f])}
                             ELSE putDigests
           /\ held' = [held EXCEPT ![i] = ItemOfOutcome(f, out, i)]
           /\ items' = AppendItem(items, ItemOfOutcome(f, out, i))
           /\ log' = [log EXCEPT ![i] = [@ EXCEPT !.converted = TRUE, !.out = out]]
    /\ fut' = [fut EXCEPT ![i] = "done"]
    /\ UNCHANGED <<phase, run, useCache, width, sources, prev, touched>>
    /\ UNCHANGED <<content, modified>>
    /\ BatchFrame

\* line 433: return result
Return ==
    /\ phase = "running"
    /\ \A i \in Indexes : fut[i] = "done"
    /\ phase' = "returned"
    /\ UNCHANGED <<run, useCache, width, sources, fut, held, items, log, prev, touched,
                   putDigests>>
    /\ UNCHANGED <<content, store, modified>>
    /\ BatchFrame

\* between two runs the environment rewrites or removes a local source file
Rewrite(f, c) ==
    /\ phase = "returned"
    /\ modified < MaxModify
    /\ \E i \in Indexes : sources[i] = f
    /\ c # content[f]
    /\ content' = [content EXCEPT ![f] = c]
    /\ modified' = modified + 1
    /\ touched' = touched \cup {f}
    /\ UNCHANGED <<phase, run, useCache, width, sources, fut, held, items, log, prev,
                   putDigests>>
    /\ UNCHANGED store
    /\ BatchFrame

NextBatch ==
    \/ \E srcs \in SourceLists, c \in BOOLEAN, w \in Widths : StartRun(srcs, c, w)
    \/ \E i \in Indexes : Lookup(i)
    \/ \E i \in Indexes : Attempt(i)
    \/ Return
    \/ \E f \in Rewritable, c \in Contents \cup {Missing} : Rewrite(f, c)

SpecBatch == InitBatch /\ [][NextBatch]_vars

\* the items of a sequence that came from index i of the sources
ItemsOf(its, i) == {k \in 1..Len(its) : its[k].idx = i}

\* C1: when convert_batch returns, result.items holds exactly one item per
\* entry of the sources argument, for that source, and total_count is the
\* number of sources.
C1_OneItemPerSource ==
    phase = "returned" =>
        /\ Len(items) = Len(sources)
        /\ \A i \in Indexes :
              /\ Cardinality(ItemsOf(items, i)) = 1
              /\ \A k \in ItemsOf(items, i) : items[k].source_path = sources[i]
        /\ \A f \in Files :
              Cardinality({k \in 1..Len(items) : items[k].source_path = f})
                = Cardinality({i \in Indexes : sources[i] = f})

C1_Witness ==
    /\ phase = "returned"
    /\ width > 1
    /\ useCache
    /\ Len(sources) = 3
    /\ items[1].idx # 1

\* the item of the result that came from index i of the sources
ItemAt(its, i) == its[CHOOSE k \in 1..Len(its) : its[k].idx = i]

Finished(i) == fut[i] = "done"

\* C5: an item that was not served from the cache has the status its
\* conversion attempt fixes: SUCCESS with the result on normal completion,
\* UNSUPPORTED on UnsupportedFormatException, FAILED on any other exception,
\* the last two with the error message and the type name and no result.
C5_StatusFollowsAttempt ==
    \A i \in Indexes :
        (phase # "idle" /\ Finished(i) /\ log[i].converted) =>
            LET out == log[i].out
                it == held[i]
            IN  /\ it.source_path = sources[i]
                /\ out.kind = "ok" =>
                      /\ it.status = "SUCCESS"
                      /\ it.has_result /\ it.result = out.result
                      /\ it.error = "None" /\ it.error_type = "None"
                /\ out.kind = "unsupported" =>
                      /\ it.status = "UNSUPPORTED"
                      /\ ~it.has_result
                      /\ it.error = out.error
                      /\ it.error_type = "UnsupportedFormatException"
                /\ out.kind = "error" =>
                      /\ it.status = "FAILED"
                      /\ ~it.has_result
                      /\ it.error = out.error
                      /\ it.error_type = out.error_type
                /\ ItemAt(items, i) = it

C5_Witness ==
    /\ phase = "returned"
    /\ \E i, j, k \in Indexes :
          /\ items[i].status = "SUCCESS"
          /\ items[j].status = "UNSUPPORTED"
          /\ items[k].status = "SUCCESS"
          /\ i # k

C5_WitnessFailed ==
    /\ phase = "returned"
    /\ \E i \in Indexes : items[i].status = "FAILED" /\ items[i].error_type = "FileConversionException"

\* C6 as stated: with a cache, a source whose content has a valid entry is
\* CACHED with the stored markdown, its quality carries from_cache, and it is
\* not converted; without a cache no item is CACHED.
C6_Original ==
    \A i \in Indexes :
        (phase # "idle" /\ Finished(i)) =>
            /\ (useCache /\ log[i].had_entry) =>
                  /\ held[i].status = "CACHED"
                  /\ ItemMarkdown(held[i]) = log[i].entry.markdown
                  /\ "from_cache" \in ItemQuality(held[i]).metrics
                  /\ ~log[i].converted
            /\ ~useCache => held[i].status # "CACHED"

\* C6: with a cache, a source whose content has a valid entry is CACHED with
\* the stored markdown and is not converted, and its quality carries
\* from_cache whenever the entry holds a quality record; without a cache no
\* item is CACHED.
C6_CachedFromEntry ==
    \A i \in Indexes :
        (phase # "idle" /\ Finished(i)) =>
            /\ (useCache /\ log[i].had_entry) =>
                  /\ held[i].status = "CACHED"
                  /\ ItemMarkdown(held[i]) = log[i].entry.markdown
                  /\ log[i].entry.quality_dict.isdict =>
                        "from_cache" \in ItemQuality(held[i]).metrics
                  /\ ~log[i].converted
            /\ ~useCache => held[i].status # "CACHED"

C6_Witness ==
    /\ phase = "returned"
    /\ useCache
    /\ \E i \in Indexes :
          /\ log[i].had_entry
          /\ log[i].entry.quality_dict.isdict
          /\ held[i].status = "CACHED"
          /\ ItemQuality(held[i]).formatting_loss # <<>>

C6_WitnessNoCache ==
    /\ phase = "returned"
    /\ ~useCache
    /\ \E i \in Indexes : log[i].had_entry /\ held[i].status = "SUCCESS"

\* a second run is over: both runs had the cache
SecondRunOver ==
    phase = "returned" /\ prev.ran /\ prev.useCache /\ useCache /\ touched = {}

\* C3 as stated: a file rewritten after the run that cached it misses the
\* cache in the next run, is converted again and is reported SUCCESS.
C3_Original ==
    SecondRunOver =>
        \A i \in Indexes :
            (/\ sources[i] \in prev.touched
             /\ IsFile(content, sources[i])
             /\ ItemAt(prev.items, i).status = "SUCCESS") =>
                /\ log[i].got = "miss"
                /\ log[i].converted
                /\ held[i].status = "SUCCESS"

\* C3: a file rewritten after the run that cached it, to a content for which
\* no entry has been stored, misses the cache in the next run, is converted
\* again and is reported SUCCESS.
C3_ChangedContentMisses ==
    SecondRunOver =>
        \A i \in Indexes :
            (/\ sources[i] \in prev.touched
             /\ IsFile(content, sources[i])
             /\ ItemAt(prev.items, i).status = "SUCCESS"
             /\ log[i].fresh) =>
                /\ log[i].got = "miss"
                /\ log[i].converted
                /\ held[i].status = "SUCCESS"

C3_Witness ==
    /\ SecondRunOver
    /\ \E i \in Indexes :
          /\ sources[i] \in prev.touched
          /\ IsFile(content, sources[i])
          /\ ItemAt(prev.items, i).status = "SUCCESS"
          /\ log[i].fresh
          /\ held[i].status = "SUCCESS"
          /\ ItemMarkdown(held[i]) # ItemMarkdown(ItemAt(prev.items, i))

\* a success count that takes fresh conversions only
success_count_converted(its) ==
    Cardinality({k \in 1..Len(its) : its[k].status = "SUCCESS"})

\* BatchConversionResult.success_count and BatchConversionResult.cached_count
success_count(its) ==
    Cardinality({k \in 1..Len(its) : its[k].status \in {"SUCCESS", "CACHED"}})
cached_count(its) == Cardinality({k \in 1..Len(its) : its[k].status = "CACHED"})

\* every source of the run is a local path
AllLocal == \A i \in Indexes : ~IsUrl(sources[i])

\* C7: every local file a run with a cache reports SUCCESS has an entry when
\* the run returns, and a second run over the same unchanged files reports
\* each of them CACHED with the markdown of the first run, cached_count
\* being the success count of the first run.
C7_SecondRunAllCached ==
    /\ (phase = "returned" /\ useCache /\ touched = {}) =>
          \A i \in Indexes :
              (held[i].status = "SUCCESS" /\ ~IsUrl(sources[i])) =>
                  has(store, content, sources[i])
    /\ (SecondRunOver /\ prev.touched = {}) =>
          \A i \in Indexes :
              (ItemAt(prev.items, i).status = "SUCCESS" /\ ~IsUrl(sources[i])) =>
                  /\ held[i].status = "CACHED"
                  /\ ItemMarkdown(held[i]) = ItemMarkdown(ItemAt(prev.items, i))
    /\ (SecondRunOver /\ prev.touched = {} /\ AllLocal) =>
          cached_count(items) = success_count(prev.items)

(***************************************************************************)
(* SpecCli: _handle_batch_conversion, invoked up to MaxRuns times over one *)
(* cache directory and one output directory; between invocations the user  *)
(* may remove an output file.  The conversion step runs convert_batch      *)
(* with max_workers = 1.                                                   *)
(***************************************************************************)
\* convert_single, lines 347-401: cache lookup, conversion, cache.put
convert_single(st, cont, cacheGiven, priv, f, i) ==
    LET r == CacheLookup(st, cont, cacheGiven, f, i)
        looked == IF cacheGiven /\ IsFile(cont, f) THEN {f} ELSE {}
    IN  IF r.cached
        THEN [item |-> r.item, store |-> st, looked |-> looked, attempted |-> {}]
        ELSE LET out == Convert(f, cont[f])
                 stores == out.kind = "ok" /\ cacheGiven /\ IsFile(cont, f)
             IN  [item |-> ItemOfOutcome(f, out, i),
                  store |-> IF stores THEN put(st, cont, f, out.result, priv) ELSE st,
                  looked |-> looked, attempted |-> {f}]

\* rule 4 of the orchestrator: an item that reached SUCCESS or CACHED with a
\* confidence below the configured threshold is reclassified
ApplyMinConfidence(it, minc) ==
    IF /\ minc.given
       /\ it.status \in {"SUCCESS", "CACHED"}
       /\ ItemQuality(it).confidence < minc.value
    THEN [it EXCEPT !.status = "FILTERED_LOW_QUALITY"]
    ELSE it

\* convert_batch with max_workers = 1, lines 403-407: the sources one after
\* the other, in input order
RECURSIVE ConvertSequential(_, _, _, _, _, _, _, _)
ConvertSequential(srcs, i, st, cont, cacheGiven, priv, minc, acc) ==
    IF i > Len(srcs) THEN [acc EXCEPT !.store = st]
    ELSE LET r == convert_single(st, cont, cacheGiven, priv, srcs[i], i) IN
         ConvertSequential(srcs, i + 1, r.store, cont, cacheGiven, priv, minc,
             [items |-> AppendItem(acc.items, ApplyMinConfidence(r.item, minc)),
              pre |-> Append(acc.pre, r.item),
              looked |-> acc.looked \cup r.looked,
              attempted |-> acc.attempted \cup r.attempted,
              store |-> r.store])

convert_batch(srcs, st, cont, cacheGiven, priv, minc) ==
    ConvertSequential(srcs, 1, st, cont, cacheGiven, priv, minc,
        [items |-> <<>>, pre |-> <<>>, looked |-> {}, attempted |-> {}, store |-> st])

\* an output list that takes every item holding a result
successful_items_with_result(its) == SelectSeq(its, LAMBDA it : it.has_result)

\* BatchConversionResult.successful_items
successful_items(its) == SelectSeq(its, LAMBDA it : it.status \in {"SUCCESS", "CACHED"})

\* an output path that never mirrors the source tree
WriterBasePathFlat(f, preserve, source_dir) == OutPath(<<>>, PathParts(f).stem, 0)

\* write_batch_results, lines 550-563: the output path of a source
WriterBasePath(f, preserve, source_dir) ==
    LET pp == PathParts(f) IN
    IF preserve /\ source_dir # "None"
    THEN IF pp.dirs # <<>> /\ Head(pp.dirs) = source_dir
         THEN OutPath(Tail(pp.dirs), pp.stem, 0)
         ELSE OutPath(<<>>, pp.stem, 0)
    ELSE OutPath(<<>>, pp.stem, 0)

\* a writer that takes the path derived from the source, free or not
WriterFreePathNone(out, p) == p

\* write_batch_results, lines 565-571: on a conflict the first free
\* "<stem>_<n>.md"
WriterFreePath(out, p) ==
    IF p \notin out THEN p
    ELSE LET free == {n \in 1..(Cardinality(out) + 1) : OutPath(p[1], p[2], n) \notin out}
         IN  OutPath(p[1], p[2], CHOOSE n \in free : \A m \in free : n <= m)

\* write_batch_results, lines 550-584, item by item; over collects the
\* paths that held a file when open(output_path, "w") ran on them (history)
RECURSIVE WriteItems(_, _, _, _, _)
WriteItems(its, acc, preserve, source_dir, overwrite) ==
    IF its = <<>> THEN acc
    ELSE LET it == Head(its)
             base == WriterBasePath(it.source_path, preserve, source_dir)
             p == IF ~overwrite /\ base \in acc.out THEN WriterFreePath(acc.out, base)
                  ELSE base
             writes == ItemMarkdown(it) # <<>>
         IN  WriteItems(Tail(its),
                 [out |-> IF writes THEN acc.out \cup {p} ELSE acc.out,
                  mapping |-> [acc.mapping EXCEPT ![it.source_path] = p],
                  wrote |-> IF writes THEN acc.wrote \cup {it.source_path} ELSE acc.wrote,
                  over |-> IF writes /\ p \in acc.out THEN acc.over \cup {p} ELSE acc.over],
                 preserve, source_dir, overwrite)

write_batch_results(its, out, preserve, source_dir, overwrite) ==
    WriteItems(successful_items(its),
               [out |-> out, mapping |-> [f \in Files |-> NoPath], wrote |-> {}, over |-> {}],
               preserve, IF preserve THEN source_dir ELSE "None", overwrite)

\* the resolver's output path of a source (the rule of the Resume Resolver)
ResolverPath(f, preserve, source_dir) ==
    LET pp == PathParts(f) IN
    IF preserve /\ source_dir # "None" /\ pp.dirs # <<>> /\ Head(pp.dirs) = source_dir
    THEN OutPath(Tail(pp.dirs), pp.stem, 0)
    ELSE OutPath(<<>>, pp.stem, 0)

\* find_existing_outputs: the sources whose output file exists
find_existing_outputs(files, out, source_dir, preserve) ==
    {files[k] : k \in {j \in 1..Len(files) : ResolverPath(files[j], preserve, source_dir) \in out}}

\* the constants of _token_estimator.py
DEFAULT_PROMPT_TOKENS == 10
DEFAULT_OUTPUT_TOKENS == 150
TOKENS_PER_TILE == 170
BASE_IMAGE_TOKENS == 85
MAX_IMAGE_DIMENSION == 2048
TILE_SIZE == 512
IMAGE_EXTENSIONS == {".jpg", ".jpeg", ".png"}
PPTX_EXTENSIONS == {".pptx"}
MB == 1024 * 1024

\* the number of bytes of a file of content c: the empty file, an image of
\* 513 x 513 bytes, a file of 5 MB
FileSize(c) ==
    CASE c = 0 -> 0
      [] c = 1 -> 513 * 513
      [] c = 2 -> 5 * MB

\* os.path.getsize: raises OSError on a path that is no file
getsize(cont, f) ==
    IF IsFile(cont, f) THEN [ok |-> TRUE, size |-> FileSize(cont[f])]
    ELSE [ok |-> FALSE, size |-> 0]

\* str.lower of a suffix
Lower(sfx) == IF sfx = ".JPG" THEN ".jpg" ELSE sfx

\* int(math.sqrt(n)) for the sizes of the model
Isqrt(n) == CHOOSE d \in 0..(2 * MAX_IMAGE_DIMENSION) : d * d <= n /\ (d + 1) * (d + 1) > n

Max(a, b) == IF a >= b THEN a ELSE b

\* an image estimate that charges for the area in tiles and nothing else
estimate_image_tokens_by_area(cont, f) ==
    LET s == getsize(cont, f) IN
    IF ~s.ok THEN TOKENS_PER_TILE * 4
    ELSE TOKENS_PER_TILE * (s.size \div (TILE_SIZE * TILE_SIZE))

\* _estimate_image_tokens
estimate_image_tokens(cont, f) ==
    LET s == getsize(cont, f) IN
    IF ~s.ok THEN BASE_IMAGE_TOKENS + TOKENS_PER_TILE * 4
    ELSE LET estimated_pixels == s.size
             root == Isqrt(estimated_pixels)
             estimated_dimension ==
                IF root > MAX_IMAGE_DIMENSION THEN MAX_IMAGE_DIMENSION ELSE root
             tiles_per_side ==
                Max(1, (estimated_dimension + TILE_SIZE - 1) \div TILE_SIZE)
             total_tiles == tiles_per_side * tiles_per_side
         IN  BASE_IMAGE_TOKENS + (TOKENS_PER_TILE * total_tiles)

\* _estimate_pptx_image_count for a deck below 10 MB, the sizes of the
\* model; int(x * 1.5) and int(2 + math.sqrt(x) * 2) in whole numbers
estimate_pptx_image_count(cont, f) ==
    LET s == getsize(cont, f) IN
    IF ~s.ok THEN 0
    ELSE IF 2 * s.size < MB THEN 0
    ELSE IF s.size < MB THEN 1
    ELSE IF s.size < 2 * MB THEN Max(1, (3 * s.size) \div (2 * MB))
    ELSE Max(2, 2 + Isqrt((4 * s.size) \div MB))

\* FileTokenEstimate(source_path, category, input_tokens, output_tokens)
FileTokenEstimate(f, category, input, output) ==
    [source_path |-> f, category |-> category, input_tokens |-> input,
     output_tokens |-> output]

\* lines 389-435 of estimate_file_tokens: the estimate by file type
EstimateByType(cont, f) ==
    LET extension == Lower(PathParts(f).suffix) IN
    IF extension \in IMAGE_EXTENSIONS
    THEN FileTokenEstimate(f, "IMAGE",
                           estimate_image_tokens(cont, f) + DEFAULT_PROMPT_TOKENS,
                           DEFAULT_OUTPUT_TOKENS)
    ELSE IF extension \in PPTX_EXTENSIONS
    THEN LET image_count == estimate_pptx_image_count(cont, f)
             avg_image_tokens == BASE_IMAGE_TOKENS + TOKENS_PER_TILE * 2
         IN  IF image_count > 0
             THEN FileTokenEstimate(f, "PPTX",
                                    (avg_image_tokens + DEFAULT_PROMPT_TOKENS) * image_count,
                                    DEFAULT_OUTPUT_TOKENS * image_count)
             ELSE FileTokenEstimate(f, "NO_LLM", 0, 0)
    ELSE FileTokenEstimate(f, "NO_LLM", 0, 0)

\* an estimator that asks the cache first
estimate_file_tokens_cache_first(st, cont, f, cacheGiven, is_resumed) ==
    IF cacheGiven /\ has(st, cont, f)
    THEN FileTokenEstimate(f, "CACHED", 0, 0)
    ELSE IF is_resumed
    THEN FileTokenEstimate(f, "RESUMED", 0, 0)
    ELSE EstimateByType(cont, f)

\* estimate_file_tokens
estimate_file_tokens(st, cont, f, cacheGiven, is_resumed) ==
    IF is_resumed
    THEN FileTokenEstimate(f, "RESUMED", 0, 0)
    ELSE IF cacheGiven /\ has(st, cont, f)
    THEN FileTokenEstimate(f, "CACHED", 0, 0)
    ELSE EstimateByType(cont, f)

\* a batch estimate that leaves out the resumed files
estimate_batch_tokens_unresumed(files, st, cont, cacheGiven, resumed_files) ==
    LET rest == SelectSeq(files, LAMBDA f : f \notin resumed_files) IN
    [k \in 1..Len(rest) |-> estimate_file_tokens(st, cont, rest[k], cacheGiven, FALSE)]

\* estimate_batch_tokens
estimate_batch_tokens(files, st, cont, cacheGiven, resumed_files) ==
    [k \in 1..Len(files) |->
        estimate_file_tokens(st, cont, files[k], cacheGiven, files[k] \in resumed_files)]

\* a serialization that writes a cached item as a success
StatusValueCoarse(status) ==
    CASE status = "SUCCESS" -> "success"
      [] status = "FAILED" -> "failed"
      [] status = "SKIPPED" -> "skipped"
      [] status = "UNSUPPORTED" -> "unsupported"
      [] status = "CACHED" -> "success"
      [] status = "RESUMED" -> "resumed"
      [] status = "FILTERED_LOW_QUALITY" -> "filtered_low_quality"

\* BatchItemStatus.value
StatusValue(status) ==
    CASE status = "SUCCESS" -> "success"
      [] status = "FAILED" -> "failed"
      [] status = "SKIPPED" -> "skipped"
      [] status = "UNSUPPORTED" -> "unsupported"
      [] status = "CACHED" -> "cached"
      [] status = "RESUMED" -> "resumed"
      [] status = "FILTERED_LOW_QUALITY" -> "filtered_low_quality"

\* _build_quality_manifest: the "files" array
ManifestFiles(its) ==
    [k \in 1..Len(its) |->
        [source_path |-> its[k].source_path,
         status |-> StatusValue(its[k].status),
         quality |-> IF its[k].has_result THEN QualityToDict(ItemQuality(its[k]))
                     ELSE NullDict,
         error |-> its[k].error,
         error_type |-> its[k].error_type]]

\* the command lines of the model: a single directory, or a list of files
DirInput ==
    [files |-> <<"in/a.bad", "in/a.csv", "in/a.txt", "in/p.raw", "in/sub/a.txt", "in/u.bin">>,
     is_single_directory |-> TRUE, source_directory |-> "in"]
ListInput ==
    [files |-> <<"in/a.txt", "in/sub/a.txt", "in/p.raw">>,
     is_single_directory |-> FALSE, source_directory |-> "None"]

MinConfidence(v) == [given |-> TRUE, value |-> v]

Options ==
    {[resume |-> FALSE, cache |-> FALSE, min_confidence |-> NoMinConfidence, estimate_tokens |-> FALSE],
     [resume |-> FALSE, cache |-> TRUE, min_confidence |-> NoMinConfidence, estimate_tokens |-> FALSE],
     [resume |-> TRUE, cache |-> TRUE, min_confidence |-> NoMinConfidence, estimate_tokens |-> FALSE],
     [resume |-> TRUE, cache |-> TRUE, min_confidence |-> NoMinConfidence, estimate_tokens |-> TRUE],
     [resume |-> FALSE, cache |-> TRUE, min_confidence |-> NoMinConfidence, estimate_tokens |-> TRUE],
     [resume |-> FALSE, cache |-> TRUE, min_confidence |-> MinConfidence(70), estimate_tokens |-> FALSE],
     [resume |-> TRUE, cache |-> FALSE, min_confidence |-> MinConfidence(70), estimate_tokens |-> FALSE]}

CliArgs ==
    {[files |-> in.files, is_single_directory |-> in.is_single_directory,
      source_directory |-> in.source_directory, resume |-> o.resume, cache |-> o.cache,
      min_confidence |-> o.min_confidence, estimate_tokens |-> o.estimate_tokens]
        : in \in {DirInput, ListInput}, o \in Options}

InitCli ==
    /\ content = InitContent
    /\ store = EmptyStore
    /\ privileged = FALSE
    /\ modified = 0
    /\ InitApi
    /\ InitRaceIdle
    /\ InitBatchIdle
    /\ InitCliIdle
    /\ InitPoolIdle
    /\ InitOpIdle

CliFrame ==
    /\ UNCHANGED <<content, privileged, putLog, lastGet>>
    /\ UNCHANGED raceVars
    /\ UNCHANGED <<phase, useCache, width, sources, fut, held, log, prev, touched, putDigests>>
    /\ UNCHANGED poolVars
    /\ UNCHANGED opVars

\* steps 1-4, lines 640-785: arguments, cache, the files to convert
CliStart(a) ==
    /\ cphase \in {"idle", "exited"}
    /\ run < MaxRuns
    /\ run' = run + 1
    /\ cphase' = "enumerated"
    /\ args' = a
    /\ todo' = a.files
    /\ existing' = {}
    /\ resumed' = <<>>
    /\ estimate' = <<>>
    /\ items' = <<>>
    /\ mapping' = [f \in Files |-> NoPath]
    /\ hist' = [hist EXCEPT !.looked = {}, !.attempted = {}, !.pre = <<>>, !.seen = {},
                            !.wrote = {}]
    /\ UNCHANGED <<store, modified, outdir>>
    /\ CliFrame

\* lines 799-815: the files that still need conversion
FilesNeedingConversion(files, found) == SelectSeq(files, LAMBDA f : f \notin found)

\* lines 803-809: one RESUMED item per file found
ResumedItems(files, found) ==
    LET hit == SelectSeq(files, LAMBDA f : f \in found) IN
    [k \in 1..Len(hit) |-> BatchItem(hit[k], "RESUMED", FALSE, NoResult, "None", "None", 0)]

\* step 5, lines 787-824: --resume
CliResume ==
    /\ cphase = "enumerated"
    /\ cphase' = "resolved"
    /\ LET found == IF args.resume
                    THEN find_existing_outputs(todo, outdir, args.source_directory,
                                               args.is_single_directory)
                    ELSE {}
       IN  /\ existing' = found
           /\ resumed' = ResumedItems(todo, found)
           /\ todo' = FilesNeedingConversion(todo, found)
    /\ hist' = [hist EXCEPT !.seen = outdir]
    /\ UNCHANGED <<args, estimate, mapping, outdir, items, run, store, modified>>
    /\ CliFrame

\* step 5.5, lines 826-855: --estimate-tokens, and return
CliEstimate ==
    /\ cphase = "resolved"
    /\ args.estimate_tokens
    /\ cphase' = "exited"
    /\ estimate' = estimate_batch_tokens(
                       todo \o [k \in 1..Len(resumed) |-> resumed[k].source_path],
                       store, content, args.cache, existing)
    /\ UNCHANGED <<args, todo, existing, resumed, mapping, outdir, hist, items, run, store,
                   modified>>
    /\ CliFrame

\* step 6, lines 857-879: convert_batch over the remaining files, then the
\* resumed items are added to the result
CliConvert ==
    /\ cphase = "resolved"
    /\ ~args.estimate_tokens
    /\ cphase' = "converted"
    /\ LET r == convert_batch(todo, store, content, args.cache, privileged, args.min_confidence)
       IN  /\ items' = r.items \o resumed
           /\ store' = r.store
           /\ hist' = [hist EXCEPT !.looked = r.looked, !.attempted = r.attempted,
                                   !.pre = r.pre]
    /\ UNCHANGED <<args, todo, existing, resumed, estimate, mapping, outdir, run, modified>>
    /\ CliFrame

\* step 7, lines 880-899: write_batch_results into the output directory
CliWrite ==
    /\ cphase = "converted"
    /\ cphase' = "exited"
    /\ LET w == write_batch_results(items, outdir, args.is_single_directory,
                                    args.source_directory, FALSE)
       IN  /\ outdir' = w.out
           /\ mapping' = w.mapping
           /\ hist' = [hist EXCEPT !.wrote = w.wrote,
                                   !.ever = @ \cup w.wrote,
                                   !.last = IF args.resume THEN @
                                            ELSE [files |-> args.files, wrote |-> w.wrote,
                                                  intact |-> TRUE]]
    /\ UNCHANGED <<args, todo, existing, resumed, estimate, items, run, store, modified>>
    /\ CliFrame

\* between invocations the user removes an output file
RemoveOutput(p) ==
    /\ cphase \in {"idle", "exited"}
    /\ modified < MaxModify
    /\ p \in outdir
    /\ outdir' = outdir \ {p}
    /\ modified' = modified + 1
    /\ hist' = [hist EXCEPT !.last.intact = FALSE]
    /\ UNCHANGED <<cphase, args, todo, existing, resumed, estimate, mapping, items, run, store>>
    /\ CliFrame

NextCli ==
    \/ \E a \in CliArgs : CliStart(a)
    \/ CliResume
    \/ CliEstimate
    \/ CliConvert
    \/ CliWrite
    \/ \E p \in outdir : RemoveOutput(p)

SpecCli == InitCli /\ [][NextCli]_vars

\* the files of the command line
ArgFiles == {args.files[k] : k \in 1..Len(args.files)}

\* C8: under --resume a file whose output exists is reported RESUMED, and
\* neither looked up in the cache nor converted, whatever the cache holds;
\* and estimate_file_tokens with is_resumed puts a file in category RESUMED
\* whatever the cache holds.
C8_ResumeBeforeCache ==
    /\ (cphase \in {"converted", "exited"} /\ args.resume /\ ~args.estimate_tokens) =>
          \A f \in existing :
              /\ Cardinality({k \in 1..Len(items) : items[k].source_path = f}) = 1
              /\ \A k \in 1..Len(items) :
                    items[k].source_path = f => items[k].status = "RESUMED"
              /\ f \notin hist.looked
              /\ f \notin hist.attempted
    /\ (cphase = "exited" /\ args.estimate_tokens) =>
          \A k \in 1..Len(estimate) :
              estimate[k].source_path \in existing => estimate[k].category = "RESUMED"
    /\ \A f \in Files, c \in BOOLEAN :
          estimate_file_tokens(store, content, f, c, TRUE).category = "RESUMED"

C8_Witness ==
    /\ cphase = "exited"
    /\ args.resume /\ args.cache /\ ~args.estimate_tokens
    /\ \E f \in existing : has(store, content, f)
    /\ \E f \in ArgFiles \ existing : f \in hist.looked

C8_WitnessEstimate ==
    /\ cphase = "exited"
    /\ args.resume /\ args.cache /\ args.estimate_tokens
    /\ \E k \in 1..Len(estimate) :
          /\ estimate[k].source_path \in existing
          /\ has(store, content, estimate[k].source_path)
    /\ \E k \in 1..Len(estimate) : estimate[k].category = "CACHED"

Resolved == cphase \in {"resolved", "converted"} /\ args.resume

\* the resolver reports f exactly when the file at the writer's path for f exists
ReportedIffOutputExists(f) ==
    f \in existing <=>
        WriterBasePath(f, args.is_single_directory, args.source_directory) \in hist.seen

\* the last full run was over the same command line and wrote the output of
\* f, and no output has been removed since
WrittenByPriorRun(f) ==
    hist.last.intact /\ hist.last.files = args.files /\ f \in hist.last.wrote

\* C9 as stated: a source is reported exactly when the file at its derived
\* output path exists; a source whose output was never written is not
\* reported; a source whose output a prior full run wrote is reported.
C9_Original ==
    Resolved =>
        \A f \in ArgFiles :
            /\ ReportedIffOutputExists(f)
            /\ f \in existing => f \in hist.ever
            /\ WrittenByPriorRun(f) => f \in existing

\* C9: a source is reported exactly when a file exists at the output path
\* the writer derives for it, so a source is not reported while no file is
\* there, and a source whose output a prior full run wrote is reported; the
\* file may be one written for another source of the same output path.
C9_ReportedIffDerivedPathExists ==
    Resolved =>
        \A f \in ArgFiles :
            /\ ReportedIffOutputExists(f)
            /\ WrittenByPriorRun(f) => f \in existing

C9_Witness ==
    /\ Resolved
    /\ args.is_single_directory
    /\ \E f \in ArgFiles : WrittenByPriorRun(f) /\ PathParts(f).dirs = <<"in", "sub">>
    /\ \E f \in ArgFiles : f \notin existing
    /\ \E f \in existing : f \notin hist.ever

\* the converted item k was below the threshold
BelowThreshold(k) ==
    /\ args.min_confidence.given
    /\ hist.pre[k].status \in {"SUCCESS", "CACHED"}
    /\ ItemQuality(hist.pre[k]).confidence < args.min_confidence.value

C10_WitnessFresh ==
    /\ cphase = "exited"
    /\ args.min_confidence.given
    /\ \E k \in 1..Len(hist.pre) :
          BelowThreshold(k) /\ hist.pre[k].status = "SUCCESS" /\ mapping[items[k].source_path] = NoPath

PoolSourceLists == SourceLists \cup {<<"in/a.bad", "in/p.raw", "in/a.txt">>}

\* the cache directory at the call: empty, or holding the entry of in/p.raw
PoolStores ==
    {EmptyStore,
     put(EmptyStore, InitContent, "in/p.raw",
         Convert("in/p.raw", InitContent["in/p.raw"]).result, FALSE)}

InitPool ==
    /\ content = InitContent
    /\ store \in PoolStores
    /\ privileged = FALSE
    /\ modified = 0
    /\ InitApi
    /\ InitRaceIdle
    /\ InitBatchIdle
    /\ InitCliIdle
    /\ InitPoolIdle
    /\ InitOpIdle

PoolFrame ==
    /\ UNCHANGED <<content, privileged, modified, putLog, lastGet>>
    /\ UNCHANGED raceVars
    /\ UNCHANGED cliVars
    /\ UNCHANGED <<run, log, prev, touched, putDigests>>
    /\ UNCHANGED opVars

\* a callback that hears of successful items only
NotifyProgressOnSuccess(calls, given, it) ==
    IF given /\ it.status \in {"SUCCESS", "CACHED"} THEN Append(calls, it) ELSE calls

\* lines 408-409 and 423-424: if on_progress: on_progress(item_result)
NotifyProgress(calls, given, it) == IF given THEN Append(calls, it) ELSE calls

\* lines 410 and 425: not skip_errors and item_result.status == FAILED
FailFast(se, it) == ~se /\ it.status = "FAILED"

\* the units a worker is running
Running == {i \in Indexes : fut[i] = "running"}

\* convert_batch is called; with max_workers # 1 every source is submitted
\* to the executor (lines 416-419)
PoolCall(srcs, c, w, se, op) ==
    /\ phase = "idle"
    /\ phase' = "running"
    /\ useCache' = c
    /\ width' = w
    /\ sources' = srcs
    /\ skipErrors' = se
    /\ onProgress' = op
    /\ fut' = [i \in 1..Len(srcs) |-> "pending"]
    /\ held' = [i \in 1..Len(srcs) |-> NoItem]
    /\ items' = <<>>
    /\ progress' = <<>>
    /\ mpc' = IF w = 1 THEN "convert" ELSE "wait"
    /\ cur' = IF w = 1 THEN 1 ELSE 0
    /\ ck' = 0
    /\ seqItems' = convert_batch(srcs, store, content, c, privileged, NoMinConfidence).items
    /\ caller' = NoCaller
    /\ late' = {}
    /\ UNCHANGED store
    /\ PoolFrame

\* lines 405-407: the caller converts the next source itself and appends
\* the item
SeqConvert ==
    /\ phase = "running"
    /\ mpc = "convert"
    /\ cur <= Len(sources)
    /\ LET r == convert_single(store, content, useCache, privileged, sources[cur], cur) IN
        /\ store' = r.store
        /\ held' = [held EXCEPT ![cur] = r.item]
        /\ items' = AppendItem(items, r.item)
    /\ fut' = [fut EXCEPT ![cur] = "collected"]
    /\ mpc' = "progress"
    /\ UNCHANGED <<phase, useCache, width, sources, skipErrors, onProgress, progress, cur, ck,
                   seqItems, caller, late>>
    /\ PoolFrame

\* a worker takes unit i off the queue, in submission order, and runs
\* lines 347-366 of convert_single: the cache lookup
WStart(i) ==
    /\ phase = "running"
    /\ width > 1
    /\ fut[i] = "pending"
    /\ \A j \in Indexes : j < i => fut[j] # "pending"
    /\ Cardinality(Running) < width
    /\ LET r == CacheLookup(store, content, useCache, sources[i], i) IN
        /\ fut' = [fut EXCEPT ![i] = IF r.cached THEN "finished" ELSE "running"]
        /\ held' = [held EXCEPT ![i] = r.item]
    /\ late' = IF mpc \in {"cancel", "raise"} THEN late \cup {i} ELSE late
    /\ UNCHANGED <<phase, useCache, width, sources, skipErrors, onProgress, progress, mpc, cur,
                   ck, seqItems, caller, items, store>>
    /\ PoolFrame

\* a worker runs lines 368-401 of convert_single for unit i: the conversion
\* and the cache.put of its result
WConvert(i) ==
    /\ phase = "running"
    /\ fut[i] = "running"
    /\ LET f == sources[i]
           out == Convert(f, content[f])
           stores == out.kind = "ok" /\ useCache /\ IsFile(content, f)
       IN  /\ store' = IF stores THEN put(store, content, f, out.result, privileged)
                        ELSE store
           /\ held' = [held EXCEPT ![i] = ItemOfOutcome(f, out, i)]
    /\ fut' = [fut EXCEPT ![i] = "finished"]
    /\ UNCHANGED <<phase, useCache, width, sources, skipErrors, onProgress, progress, mpc, cur,
                   ck, seqItems, caller, late, items>>
    /\ PoolFrame

\* lines 420-422: as_completed hands the caller a finished future and the
\* caller appends its item
Collect(i) ==
    /\ phase = "running"
    /\ mpc = "wait"
    /\ fut[i] = "finished"
    /\ items' = AppendItem(items, held[i])
    /\ fut' = [fut EXCEPT ![i] = "collected"]
    /\ cur' = i
    /\ mpc' = "progress"
    /\ UNCHANGED <<phase, useCache, width, sources, skipErrors, onProgress, progress, ck,
                   seqItems, caller, late, held, store>>
    /\ PoolFrame

\* lines 408-410 and 423-425: the callback, then the fail-fast test
Progress ==
    /\ phase = "running"
    /\ mpc = "progress"
    /\ progress' = NotifyProgress(progress, onProgress, held[cur])
    /\ mpc' = IF FailFast(skipErrors, held[cur])
              THEN IF width = 1 THEN "raise" ELSE "cancel"
              ELSE IF width = 1 THEN "convert" ELSE "wait"
    /\ cur' = IF width = 1 /\ ~FailFast(skipErrors, held[cur]) THEN cur + 1 ELSE cur
    /\ ck' = 0
    /\ UNCHANGED <<phase, useCache, width, sources, skipErrors, onProgress, seqItems, caller,
                   late, fut, held, items, store>>
    /\ PoolFrame

\* lines 427-428: f.cancel() for the next future of future_to_source; a
\* future that is running or finished cannot be cancelled
Cancel ==
    /\ phase = "running"
    /\ mpc = "cancel"
    /\ ck < Len(sources)
    /\ fut' = [fut EXCEPT ![ck + 1] = IF @ = "pending" THEN "cancelled" ELSE @]
    /\ ck' = ck + 1
    /\ mpc' = IF ck + 1 = Len(sources) THEN "raise" ELSE "cancel"
    /\ UNCHANGED <<phase, useCache, width, sources, skipErrors, onProgress, progress, cur,
                   seqItems, caller, late, held, items, store>>
    /\ PoolFrame

\* lines 411-413 and 429-431: raise RuntimeError; it leaves the with block
\* of line 416 through shutdown(wait=True), which joins the workers
PoolRaise ==
    /\ phase = "running"
    /\ mpc = "raise"
    /\ Running = {}
    /\ phase' = "raised"
    /\ mpc' = "done"
    /\ caller' = [kind |-> "RuntimeError", items |-> <<>>,
                  message |-> <<held[cur].source_path, held[cur].error>>]
    /\ UNCHANGED <<useCache, width, sources, skipErrors, onProgress, progress, cur, ck,
                   seqItems, late, fut, held, items, store>>
    /\ PoolFrame

\* line 433: return result
PoolReturn ==
    /\ phase = "running"
    /\ mpc \in {"convert", "wait"}
    /\ \A i \in Indexes : fut[i] = "collected"
    /\ phase' = "returned"
    /\ mpc' = "done"
    /\ caller' = [kind |-> "result", items |-> items, message |-> <<>>]
    /\ UNCHANGED <<useCache, width, sources, skipErrors, onProgress, progress, cur, ck,
                   seqItems, late, fut, held, items, store>>
    /\ PoolFrame

NextPool ==
    \/ \E srcs \in PoolSourceLists, c \in BOOLEAN, w \in Widths, se \in BOOLEAN, op \in BOOLEAN :
          PoolCall(srcs, c, w, se, op)
    \/ SeqConvert
    \/ \E i \in Indexes : WStart(i)
    \/ \E i \in Indexes : WConvert(i)
    \/ \E i \in Indexes : Collect(i)
    \/ Progress
    \/ Cancel
    \/ PoolRaise
    \/ PoolReturn

SpecPool == InitPool /\ [][NextPool]_vars

\* the items of a sequence, as a set
ItemSet(its) == {its[k] : k \in 1..Len(its)}

\* C11: when skip_errors is False and an item came back FAILED, the batch
\* stops only after every unit a worker had started has run to completion,
\* no unit is started once the caller has seen the failure, and the caller
\* receives the outcome of every unit that completed.
C11_FailFastKeepsOutcomes ==
    phase = "raised" =>
        /\ Running = {}
        /\ late = {}
        /\ \A i \in Indexes :
              fut[i] \in {"finished", "collected"} => held[i] \in ItemSet(caller.items)

\* the (source, status) outcomes of a list of items
Outcomes(its) == {<<its[k].source_path, its[k].status>> : k \in 1..Len(its)}

\* C12: with max_workers = 1 result.items is in the order of the sources;
\* with max_workers > 1 the items have the same set of (source, status)
\* outcomes as the run with max_workers = 1, whatever the workers' order.
C12_ParallelSameAsSequential ==
    phase = "returned" =>
        /\ width = 1 =>
              /\ Len(items) = Len(sources)
              /\ \A k \in 1..Len(items) :
                    items[k].idx = k /\ items[k].source_path = sources[k]
        /\ width > 1 => Outcomes(items) = Outcomes(seqItems)

\* C13: on_progress is called once for every item of the result and for
\* nothing else, each call after the item has been appended, in the order
\* of the appends; when convert_batch returns, the number of calls is
\* total_count.
C13_ProgressOncePerItem ==
    phase \in {"running", "returned", "raised"} =>
        /\ ~onProgress => progress = <<>>
        /\ onProgress =>
              /\ Len(progress) <= Len(items)
              /\ \A k \in 1..Len(progress) : progress[k] = items[k]
              /\ \A i \in Indexes :
                    Cardinality({k \in 1..Len(progress) : progress[k].idx = i}) <= 1
              /\ mpc # "progress" => Len(progress) = Len(items)
              /\ phase = "returned" => Len(progress) = Len(sources)

C13_Witness ==
    /\ phase = "returned"
    /\ onProgress
    /\ width > 1
    /\ Len(progress) = 3
    /\ progress[1].idx # 1
    /\ \E k \in 1..Len(progress) : progress[k].status = "UNSUPPORTED"

C13_WitnessFailFast ==
    /\ phase = "raised"
    /\ onProgress
    /\ width > 1
    /\ Len(progress) = 2
    /\ progress[2].status = "FAILED"


(***************************************************************************)
(* SpecFault: one client calls get and put on a cache directory whose      *)
(* entry files the environment may damage, puts results that json.dump     *)
(* cannot write, and runs convert_single with the cache.                   *)
(***************************************************************************)
FaultFiles == {"in/a.txt", "in/a.bad"}

FaultResults ==
    {Result(<<"# Original">>, "None", NoQuality, "meta"),
     Result(<<"surrogate", 0>>, "None", NoQuality, "None"),
     Result(<<"# Doc">>, "None", Quality(90, "TestConverter", <<>>, {"set_valued"}), "None")}

\* what a damaged entry file may hold: bytes that are no utf-8, a JSON
\* list, an entry of another digest
Garbage ==
    {NotUtf8, << <<"list", 0>> >>,
     JsonDump(MakeEntry(<<"0", "0", "0">>, Result(<<"# Original">>, "None", NoQuality, "None")))}

InitFault ==
    /\ content = InitContent
    /\ store = EmptyStore
    /\ privileged = FALSE
    /\ modified = 0
    /\ InitApi
    /\ InitRaceIdle
    /\ InitBatchIdle
    /\ InitCliIdle
    /\ InitPoolIdle
    /\ InitOpIdle

FaultFrame ==
    /\ UNCHANGED <<content, privileged, putLog>>
    /\ UNCHANGED raceVars
    /\ UNCHANGED <<phase, run, useCache, width, fut, held, prev, touched, putDigests>>
    /\ UNCHANGED cliVars
    /\ UNCHANGED poolVars
    /\ UNCHANGED <<lastClear, summary>>

\* the environment damages the entry file at p
FaultDamage(p, g) ==
    /\ modified < MaxModify
    /\ store[p].exists
    /\ store' = [store EXCEPT ![p].data = g]
    /\ modified' = modified + 1
    /\ lastGet' = NoGet
    /\ lastPut' = NoPutCall
    /\ UNCHANGED <<sources, items, log, dumpFailed>>
    /\ FaultFrame

\* cache.get(f)
FaultGet(f) ==
    /\ lastGet' = [called |-> TRUE, file |-> f, res |-> get(store, content, f)]
    /\ lastPut' = NoPutCall
    /\ UNCHANGED <<store, modified, sources, items, log, dumpFailed>>
    /\ FaultFrame

\* cache.put(f, r)
FaultPut(f, r) ==
    /\ LET c == put_call(store, content, f, r, privileged)
           h == compute_file_hash(content, f).hash
       IN  /\ store' = c.st
           /\ lastPut' = [called |-> TRUE, file |-> f, raised |-> c.raised]
           /\ dumpFailed' = IF DumpError(MakeEntry(h, r)) # "None"
                            THEN dumpFailed \cup {get_cache_path(h)}
                            ELSE dumpFailed \ {get_cache_path(h)}
    /\ lastGet' = NoGet
    /\ UNCHANGED <<modified, sources, items, log>>
    /\ FaultFrame

\* convert_batch([f], max_workers=1, cache=cache): lines 347-407
FaultConvert(f) ==
    /\ LET r == convert_single(store, content, TRUE, privileged, f, 1)
           g == get(store, content, f)
           h == compute_file_hash(content, f).hash
       IN  /\ store' = r.store
           /\ items' = AppendItem(<<>>, r.item)
           /\ log' = << [NoLog EXCEPT !.got = IF g.raised # "None" THEN "raised"
                                              ELSE IF g.hit THEN "hit" ELSE "miss",
                                      !.had_entry = FsExists(store, get_cache_path(h)),
                                      !.converted = ~g.hit,
                                      !.out = Convert(f, content[f])] >>
           /\ dumpFailed' = IF r.store # store THEN dumpFailed \ {get_cache_path(h)}
                            ELSE dumpFailed
    /\ sources' = <<f>>
    /\ lastGet' = NoGet
    /\ lastPut' = NoPutCall
    /\ UNCHANGED modified
    /\ FaultFrame

NextFault ==
    \/ \E q \in CachePaths, g \in Garbage : FaultDamage(q, g)
    \/ \E f \in FaultFiles : FaultGet(f)
    \/ \E f \in FaultFiles, r \in FaultResults : FaultPut(f, r)
    \/ \E f \in FaultFiles : FaultConvert(f)

SpecFault == InitFault /\ [][NextFault]_vars

\* C26: get never returns an entry whose stored file_hash differs from the
\* digest it has just computed for the file: a complete entry file found at
\* the location of the digest but recording another digest is a miss.
C26_HitHasFreshDigest ==
    lastGet.called =>
        LET hr == compute_file_hash(content, lastGet.file)
            p == get_cache_path(hr.hash)
        IN  /\ lastGet.res.hit =>
                  /\ hr.ok
                  /\ lastGet.res.entry.file_hash = hr.hash
            /\ (/\ hr.ok
                /\ FsExists(store, p)
                /\ Utf8Ok(store[p].data)
                /\ JsonOk(store[p].data)
                /\ from_dict(store[p].data).file_hash # hr.hash) => ~lastGet.res.hit

\* get has answered on a complete entry file that records another digest
C26_Witness ==
    /\ lastGet.called
    /\ ~lastGet.res.hit
    /\ lastGet.res.raised = "None"
    /\ LET p == get_cache_path(compute_file_hash(content, lastGet.file).hash) IN
          /\ FsExists(store, p)
          /\ JsonOk(store[p].data)
          /\ from_dict(store[p].data).file_hash # Sha256(content[lastGet.file])

\* C14: no failure inside the cache reaches its caller: get returns a miss
\* and put returns, whatever the entry file holds and whatever the result
\* is, and an item whose cache read failed is the item of the conversion,
\* as without a cache.
C14_CacheNeverRaises ==
    /\ lastGet.called => lastGet.res.raised = "None"
    /\ lastPut.called => lastPut.raised = "None"
    /\ \A k \in 1..Len(items) :
          log[k].got # "hit" => items[k] = ItemOfOutcome(sources[k], log[k].out, k)

\* the entry file at p is where the digest in its name puts it
Sharded(p) == p = get_cache_path(p[2])

MaxItems == 3

\* BatchConversionResult.total_count and the counts by status
total_count(its) == Len(its)
failed_count(its) == Cardinality({k \in 1..Len(its) : its[k].status = "FAILED"})
skipped_count(its) == Cardinality({k \in 1..Len(its) : its[k].status = "SKIPPED"})
unsupported_count(its) ==
    Cardinality({k \in 1..Len(its) : its[k].status = "UNSUPPORTED"})

\* BatchConversionResult.completion_percentage, a float, kept as the
\* fraction num / den
completion_percentage(its) ==
    IF total_count(its) = 0
    THEN [num |-> 100, den |-> 1]
    ELSE [num |-> success_count(its) * 100, den |-> total_count(its)]

\* a fraction rounded to tenths, in tenths
RoundTenths(p) == (2 * 10 * p.num + p.den) \div (2 * p.den)

\* the converters a quality record may name
ConverterNames == {"PlainTextConverter", "CsvConverter", "HtmlConverter", "TestConverter"}

\* sum(item.quality.confidence for item in successful if item.quality)
RECURSIVE total_confidence(_)
total_confidence(its) ==
    IF its = <<>> THEN 0
    ELSE (IF ItemQuality(Head(its)).present THEN ItemQuality(Head(its)).confidence ELSE 0)
         + total_confidence(Tail(its))

\* an aggregate that averages over every item of the batch
overall_quality_of_all(its) ==
    [confidence |-> IF Len(its) > 0
                    THEN [num |-> total_confidence(its), den |-> Len(its)]
                    ELSE [num |-> 100, den |-> 1],
     formatting_loss |->
        UNION {{ItemQuality(its[k]).formatting_loss[j] :
                    j \in 1..Len(ItemQuality(its[k]).formatting_loss)} :
               k \in 1..Len(its)},
     converters_used |->
        [c \in ConverterNames |->
            Cardinality({k \in 1..Len(its) : ItemQuality(its[k]).converter_used = c})],
     is_partial |-> success_count(its) < total_count(its),
     converter_used |-> "BatchConverter"]

\* BatchConversionResult.overall_quality; the metric converters_used is a
\* dict, kept as the function c |-> converters_used.get(c, 0)
overall_quality(its) ==
    IF total_count(its) = 0
    THEN [confidence |-> [num |-> DefaultQuality.confidence, den |-> 1],
          formatting_loss |-> {},
          converters_used |-> [c \in ConverterNames |-> 0],
          is_partial |-> FALSE,
          converter_used |-> DefaultQuality.converter_used]
    ELSE LET successful == successful_items(its)
             named == {k \in 1..Len(successful) :
                          /\ ItemQuality(successful[k]).present
                          /\ ItemQuality(successful[k]).converter_used # "None"}
             lossy == {k \in 1..Len(successful) :
                          /\ ItemQuality(successful[k]).present
                          /\ ItemQuality(successful[k]).formatting_loss # <<>>}
         IN  [confidence |-> IF Len(successful) > 0
                             THEN [num |-> total_confidence(successful),
                                   den |-> Len(successful)]
                             ELSE [num |-> 0, den |-> 1],
              formatting_loss |->
                 UNION {{ItemQuality(successful[k]).formatting_loss[j] :
                             j \in 1..Len(ItemQuality(successful[k]).formatting_loss)} :
                        k \in lossy},
              converters_used |->
                 [c \in ConverterNames |->
                     Cardinality({k \in named :
                                     ItemQuality(successful[k]).converter_used = c})],
              is_partial |-> success_count(its) < total_count(its),
              converter_used |-> "BatchConverter"]

\* the derived properties of a BatchConversionResult holding its
Summary(its) ==
    [computed |-> TRUE,
     total_count |-> total_count(its),
     success_count |-> success_count(its),
     failed_count |-> failed_count(its),
     skipped_count |-> skipped_count(its),
     unsupported_count |-> unsupported_count(its),
     completion_percentage |-> completion_percentage(its),
     overall_quality |-> overall_quality(its)]

\* the items a caller may append as the i-th: the items convert_single
\* makes of the converter's outcomes, an item served from the cache, a
\* skipped item, and a successful item built without a result
ResultItems(i) ==
    {ItemOfOutcome(f, Convert(f, c), i) :
        f \in {"in/a.txt", "in/a.csv", "in/p.raw", "in/u.bin", "in/a.bad"}, c \in {1, 2}}
    \cup {BatchItem("in/a.txt", "CACHED", TRUE,
                    cache_entry_to_result(MakeEntry(Sha256(2), Convert("in/a.txt", 2).result)),
                    "None", "None", i),
          BatchItem("in/a.txt", "SKIPPED", FALSE, NoResult, "None", "None", i),
          BatchItem("in/a.txt", "SUCCESS", FALSE, NoResult, "None", "None", i)}

InitResult ==
    /\ content = InitContent
    /\ store = EmptyStore
    /\ privileged = FALSE
    /\ modified = 0
    /\ InitApi
    /\ InitRaceIdle
    /\ InitBatchIdle
    /\ InitCliIdle
    /\ InitPoolIdle
    /\ InitOpIdle

ResultFrame ==
    /\ UNCHANGED <<content, store, privileged, modified, putLog, lastGet>>
    /\ UNCHANGED raceVars
    /\ UNCHANGED <<phase, run, useCache, width, sources, fut, held, log, prev, touched,
                   putDigests>>
    /\ UNCHANGED cliVars
    /\ UNCHANGED poolVars
    /\ UNCHANGED <<lastPut, lastClear, dumpFailed>>

\* result.items.append(item)
ResultAppend(it) ==
    /\ Len(items) < MaxItems
    /\ items' = AppendItem(items, it)
    /\ summary' = NoSummary
    /\ ResultFrame

\* the caller reads the derived properties of the result
ResultRead ==
    /\ ~summary.computed
    /\ summary' = Summary(items)
    /\ UNCHANGED items
    /\ ResultFrame

NextResult ==
    \/ \E it \in ResultItems(Len(items) + 1) : ResultAppend(it)
    \/ ResultRead

SpecResult == InitResult /\ [][NextResult]_vars

\* the positions of its whose status is in S
WithStatus(its, S) == {k \in 1..Len(its) : its[k].status \in S}

StatusesOf(its) == [k \in 1..Len(its) |-> its[k].status]

Successful(its) == WithStatus(its, {"SUCCESS", "CACHED"})

\* the sum of the confidences of the items of its at the positions S that
\* hold a result
RECURSIVE ConfidenceOver(_, _)
ConfidenceOver(its, S) ==
    IF S = {} THEN 0
    ELSE LET k == CHOOSE x \in S : TRUE
         IN  (IF its[k].has_result THEN ResultQuality(its[k].result).confidence ELSE 0)
             + ConfidenceOver(its, S \ {k})

\* the entries of a histogram, summed
RECURSIVE HistogramTotal(_, _)
HistogramTotal(h, S) ==
    IF S = {} THEN 0
    ELSE LET c == CHOOSE x \in S : TRUE IN h[c] + HistogramTotal(h, S \ {c})

\* the confidence, the formatting losses and the partial mark of the
\* aggregate
AggregateOfSuccessful ==
    LET q == summary.overall_quality IN
    /\ Successful(items) # {} =>
          q.confidence.num * Cardinality(Successful(items))
             = ConfidenceOver(items, Successful(items)) * q.confidence.den
    /\ Successful(items) = {} => q.confidence.num = 0
    /\ q.formatting_loss =
          {m \in LossMembers :
              \E k \in Successful(items) :
                 /\ items[k].has_result
                 /\ \E j \in 1..Len(ResultQuality(items[k].result).formatting_loss) :
                       ResultQuality(items[k].result).formatting_loss[j] = m}
    /\ q.is_partial <=> summary.success_count < summary.total_count

\* C16 as stated: the aggregate of a non-empty batch has the mean
\* confidence and the losses of the successful items, is partial exactly
\* when success_count < total_count, and its histogram counts each
\* successful item under the converter that handled it, so that its counts
\* add up to the number of successful items.
C16_Original ==
    summary.computed /\ Len(items) > 0 =>
        /\ AggregateOfSuccessful
        /\ HistogramTotal(summary.overall_quality.converters_used, ConverterNames)
              = Cardinality(Successful(items))

\* C16: the aggregate of a non-empty batch has as confidence the sum of the
\* confidences of the successful items that hold a result divided by the
\* number of successful items (0 when there is none), as formatting losses
\* the union of those of the successful items, is partial exactly when
\* success_count < total_count, and its histogram counts, for each
\* converter, the successful items whose quality record names it; a
\* successful item whose quality names no converter is counted nowhere.
C16_OverallQuality ==
    summary.computed /\ Len(items) > 0 =>
        /\ AggregateOfSuccessful
        /\ \A c \in ConverterNames :
              summary.overall_quality.converters_used[c] =
                 Cardinality({k \in Successful(items) :
                                 /\ items[k].has_result
                                 /\ ResultQuality(items[k].result).converter_used = c})
        /\ HistogramTotal(summary.overall_quality.converters_used, ConverterNames)
              = Cardinality({k \in Successful(items) :
                                /\ items[k].has_result
                                /\ ResultQuality(items[k].result).converter_used # "None"})

C16_Witness ==
    /\ summary.computed
    /\ Len(items) = 3
    /\ summary.overall_quality.is_partial
    /\ summary.overall_quality.converters_used["PlainTextConverter"] = 1
    /\ summary.overall_quality.converters_used["CsvConverter"] = 1
    /\ summary.overall_quality.formatting_loss = {"FormattingLossType.TABLE"}
    /\ summary.overall_quality.confidence = [num |-> 140, den |-> 2]

(***************************************************************************)
(* SpecEstimate: estimate_batch_tokens over a list of images, a slide deck *)
(* and a text file, some of them cached, some resumed, while files are     *)
(* rewritten, truncated and deleted between the calls.                     *)
(***************************************************************************)
EstFiles == {"in/a.txt", "in/i.png", "in/I.JPG", "in/d.pptx"}

EstContent ==
    [f \in EstFiles |->
        CASE f = "in/i.png" -> 0
          [] f = "in/d.pptx" -> 2
          [] OTHER -> 1]

EstLists ==
    {<<"in/i.png", "in/a.txt", "in/I.JPG", "in/d.pptx">>,
     <<"in/d.pptx", "in/I.JPG", "in/i.png">>}

InitEstimate ==
    /\ content = EstContent
    /\ store = EmptyStore
    /\ privileged = FALSE
    /\ modified = 0
    /\ InitApi
    /\ InitRaceIdle
    /\ InitBatchIdle
    /\ InitCliIdle
    /\ InitPoolIdle
    /\ InitOpIdle

EstimateFrame ==
    /\ UNCHANGED <<privileged, putLog, lastGet>>
    /\ UNCHANGED raceVars
    /\ UNCHANGED <<phase, run, width, fut, held, items, log, prev, touched, putDigests>>
    /\ UNCHANGED <<cphase, args, todo, resumed, mapping, outdir, hist>>
    /\ UNCHANGED poolVars
    /\ UNCHANGED opVars

\* an earlier run stored the conversion of f
EstPut(f) ==
    /\ IsFile(content, f)
    /\ ~has(store, content, f)
    /\ store' = put(store, content, f, Result(<<"# Original">>, "None", NoQuality, "None"),
                    privileged)
    /\ estimate' = <<>>
    /\ sources' = <<>>
    /\ existing' = {}
    /\ UNCHANGED <<content, modified, useCache>>
    /\ EstimateFrame

\* the environment rewrites, truncates or deletes f
EstModify(f, c) ==
    /\ modified < MaxModify
    /\ c # content[f]
    /\ content' = [content EXCEPT ![f] = c]
    /\ modified' = modified + 1
    /\ estimate' = <<>>
    /\ sources' = <<>>
    /\ existing' = {}
    /\ UNCHANGED <<store, useCache>>
    /\ EstimateFrame

\* estimate_batch_tokens(files, cache=..., resumed_files=...)
EstimateBatch(files, c, resumed_files) ==
    /\ estimate' = estimate_batch_tokens(files, store, content, c, resumed_files)
    /\ sources' = files
    /\ useCache' = c
    /\ existing' = resumed_files
    /\ UNCHANGED <<content, store, modified>>
    /\ EstimateFrame

NextEstimate ==
    \/ \E f \in EstFiles : EstPut(f)
    \/ \E f \in EstFiles, c \in Contents \cup {Missing} : EstModify(f, c)
    \/ \E files \in EstLists, c \in BOOLEAN, resumed_files \in SUBSET EstFiles :
          EstimateBatch(files, c, resumed_files)

SpecEstimate == InitEstimate /\ [][NextEstimate]_vars

\* the files whose extension is that of an image, in either letter case
ImageFiles == {"in/i.png", "in/I.JPG"}

\* C17: the estimate of a file that is resumed, or that the cache given
\* holds, has the category RESUMED or CACHED and 0 input and 0 output
\* tokens, whatever its size and extension; the estimate of every other
\* image file, a 0-byte one and a missing one included, has at least
\* BASE_IMAGE_TOKENS input tokens and no negative count.
C17_ZeroOrAtLeastBase ==
    \A k \in 1..Len(estimate) :
        LET e == estimate[k]
            f == sources[k]
            skipped == f \in existing \/ (useCache /\ has(store, content, f))
        IN  /\ e.source_path = f
            /\ e.category \in {"RESUMED", "CACHED"} =>
                  e.input_tokens = 0 /\ e.output_tokens = 0
            /\ skipped => e.category \in {"RESUMED", "CACHED"}
            /\ f \in ImageFiles /\ ~skipped =>
                  /\ e.category = "IMAGE"
                  /\ e.input_tokens >= BASE_IMAGE_TOKENS
                  /\ e.output_tokens >= 0
            /\ e.input_tokens >= 0 /\ e.output_tokens >= 0

C17_Witness ==
    /\ Len(estimate) = 4
    /\ content["in/i.png"] = 0
    /\ estimate[1] = FileTokenEstimate("in/i.png", "IMAGE", 265, 150)
    /\ estimate[2].category = "CACHED"
    /\ estimate[3].category = "RESUMED"
    /\ estimate[4].category = "PPTX"
    /\ estimate[4].input_tokens > 0

(***************************************************************************)
(* SpecWrite: a caller converts a list of sources and hands the result to  *)
(* write_batch_results, up to MaxRuns times into one output directory,     *)
(* with and without overwrite; source files are rewritten or emptied       *)
(* between the calls.                                                      *)
(***************************************************************************)
WriteLists ==
    {<<"in/a.txt", "in/a.csv">>,
     <<"in/a.txt", "in/u.bin", "in/sub/a.txt">>,
     <<"in/p.raw", "in/a.bad">>}

\* what the caller passed to write_batch_results
WriteArgs(preserve, source_dir, overwrite) ==
    [preserve_structure |-> preserve, source_directory |-> source_dir,
     overwrite |-> overwrite]

InitWrite ==
    /\ content = InitContent
    /\ store = EmptyStore
    /\ privileged = FALSE
    /\ modified = 0
    /\ InitApi
    /\ InitRaceIdle
    /\ InitBatchIdle
    /\ InitCliIdle
    /\ InitPoolIdle
    /\ InitOpIdle

WriteFrame ==
    /\ UNCHANGED <<store, privileged, putLog, lastGet>>
    /\ UNCHANGED raceVars
    /\ UNCHANGED <<phase, useCache, width, fut, held, log, prev, touched, putDigests>>
    /\ UNCHANGED <<cphase, todo, existing, resumed, estimate>>
    /\ UNCHANGED poolVars
    /\ UNCHANGED opVars

\* write_batch_results(convert_batch(srcs), outdir, preserve_structure=,
\* overwrite=), the result's source_directory being source_dir
WriteCall(srcs, preserve, source_dir, overwrite) ==
    /\ run < MaxRuns
    /\ run' = run + 1
    /\ LET r == convert_batch(srcs, store, content, FALSE, privileged, NoMinConfidence)
           w == write_batch_results(r.items, outdir, preserve, source_dir, overwrite)
       IN  /\ items' = r.items
           /\ outdir' = w.out
           /\ mapping' = w.mapping
           /\ hist' = [hist EXCEPT !.seen = outdir, !.wrote = w.wrote, !.over = w.over]
    /\ sources' = srcs
    /\ args' = WriteArgs(preserve, source_dir, overwrite)
    /\ UNCHANGED <<content, modified>>
    /\ WriteFrame

\* the environment rewrites or empties a source file between two calls
WriteModify(f, c) ==
    /\ modified < MaxModify
    /\ c # content[f]
    /\ content' = [content EXCEPT ![f] = c]
    /\ modified' = modified + 1
    /\ UNCHANGED <<run, items, outdir, mapping, hist, sources, args>>
    /\ WriteFrame

NextWrite ==
    \/ \E srcs \in WriteLists, preserve \in BOOLEAN, source_dir \in {"None", "in"},
          overwrite \in BOOLEAN : WriteCall(srcs, preserve, source_dir, overwrite)
    \/ \E f \in Rewritable, c \in Contents : WriteModify(f, c)

SpecWrite == InitWrite /\ [][NextWrite]_vars

\* the sources of the successful items of the last call
Written == {items[k].source_path : k \in {j \in 1..Len(items) :
                                            items[j].status \in {"SUCCESS", "CACHED"}}}

\* the path write_batch_results derives from source s
Derived(s) ==
    WriterBasePath(s, args.preserve_structure,
                   IF args.preserve_structure THEN args.source_directory ELSE "None")

\* C22: with overwrite = False no open(path, "w") of a call runs on a path
\* that holds a file, be it a file found in the directory or one written
\* earlier in the call: an item whose derived path exists goes to the
\* derived path with the least suffix _1, _2, ... that is free; with
\* overwrite = True every item goes to its derived path.
C22_NoOverwriteUnlessAsked ==
    run > 0 =>
        /\ ~args.overwrite =>
              /\ hist.over = {}
              /\ \A s \in hist.wrote : mapping[s] \notin hist.seen
              /\ \A s \in Written :
                    /\ mapping[s][1] = Derived(s)[1]
                    /\ mapping[s][2] = Derived(s)[2]
                    /\ \A n \in 0..(mapping[s][3] - 1) :
                          OutPath(mapping[s][1], mapping[s][2], n) \in outdir
        /\ args.overwrite => \A s \in Written : mapping[s] = Derived(s)

C22_Witness ==
    /\ run = MaxRuns
    /\ ~args.overwrite
    /\ \E s \in hist.wrote : Derived(s) \in hist.seen /\ mapping[s][3] = 1
    /\ \E s \in hist.wrote : mapping[s][3] = 2

\* C30: within one call with overwrite = False the successful items of
\* distinct sources are mapped to distinct output paths, also when sources
\* share a stem and when a markdown is empty, and every path of the
\* returned mapping names a file that exists after the call.
C30_DistinctExistingPaths ==
    (run > 0 /\ ~args.overwrite) =>
        /\ \A s \in Written, t \in Written : s # t => mapping[s] # mapping[t]
        /\ \A s \in Written : mapping[s] \in outdir

(***************************************************************************)
(* The manifest of a Batch Result and its reader.                          *)
(***************************************************************************)
AllStatuses ==
    {"SUCCESS", "FAILED", "SKIPPED", "UNSUPPORTED", "CACHED", "RESUMED",
     "FILTERED_LOW_QUALITY"}

\* BatchConversionResult.resumed_count and .filtered_low_quality_count
resumed_count(its) == Cardinality({k \in 1..Len(its) : its[k].status = "RESUMED"})
filtered_low_quality_count(its) ==
    Cardinality({k \in 1..Len(its) : its[k].status = "FILTERED_LOW_QUALITY"})

\* the counts of a Batch Result
Counts(its) ==
    [total_files |-> total_count(its),
     successful |-> success_count(its),
     cached |-> cached_count(its),
     resumed |-> resumed_count(its),
     failed |-> failed_count(its),
     unsupported |-> unsupported_count(its),
     skipped |-> skipped_count(its),
     filtered_low_quality |-> filtered_low_quality_count(its)]

\* _build_quality_manifest: the counts of "summary" and the "files" array
build_quality_manifest(its) == [summary |-> Counts(its), files |-> ManifestFiles(its)]

\* BatchItemStatus(value): the member of a value
StatusOfValue(v) == CHOOSE st \in AllStatuses : StatusValue(st) = v

\* the reader of a manifest: one item per entry of "files", its status the
\* member its value names, its quality read by ConversionQuality.from_dict
read_quality_manifest(m) ==
    [k \in 1..Len(m.files) |->
        BatchItem(m.files[k].source_path, StatusOfValue(m.files[k].status),
                  m.files[k].quality.isdict,
                  IF m.files[k].quality.isdict
                  THEN Result(<<>>, "None", QualityFromDict(m.files[k].quality), "None")
                  ELSE NoResult,
                  m.files[k].error, m.files[k].error_type, 0)]

StaleConvert(i) ==
    /\ phase = "running"
    /\ fut[i] = "conv"
    /\ held[i] = NoItem
    /\ LET f == sources[i]
           out == Convert(f, content[f])
       IN  /\ held' = [held EXCEPT ![i] = ItemOfOutcome(f, out, i)]
           /\ log' = [log EXCEPT ![i] = [@ EXCEPT !.converted = TRUE, !.out = out]]
    /\ UNCHANGED <<phase, run, useCache, width, sources, fut, items, prev, touched,
                   putDigests>>
    /\ UNCHANGED <<content, store, modified>>
    /\ BatchFrame

\* convert_single, lines 373-385: cache.put(source_str, conversion_result)
\* hashes the file as it is now and stores the result kept by the unit;
\* lines 406-407 and 420-422: the caller appends the item
StalePut(i) ==
    /\ phase = "running"
    /\ fut[i] = "conv"
    /\ held[i] # NoItem
    /\ LET f == sources[i]
           out == log[i].out
           stores == out.kind = "ok" /\ useCache /\ IsFile(content, f)
       IN  /\ store' = IF stores THEN put(store, content, f, out.result, privileged)
                        ELSE store
           /\ putDigests' = IF stores THEN putDigests \cup {Sha256(content[f])}
                             ELSE putDigests
           /\ items' = AppendItem(items, held[i])
    /\ fut' = [fut EXCEPT ![i] = "done"]
    /\ UNCHANGED <<phase, run, useCache, width, sources, held, log, prev, touched>>
    /\ UNCHANGED <<content, modified>>
    /\ BatchFrame

\* another process rewrites or removes a source file of the batch
StaleRewrite(f, c) ==
    /\ phase \in {"running", "returned"}
    /\ modified < MaxModify
    /\ \E i \in Indexes : sources[i] = f
    /\ c # content[f]
    /\ content' = [content EXCEPT ![f] = c]
    /\ modified' = modified + 1
    /\ touched' = touched \cup {f}
    /\ UNCHANGED <<phase, run, useCache, width, sources, fut, held, items, log, prev,
                   putDigests>>
    /\ UNCHANGED store
    /\ BatchFrame

NextStale ==
    \/ \E srcs \in SourceLists, c \in BOOLEAN, w \in Widths : StartRun(srcs, c, w)
    \/ \E i \in Indexes : Lookup(i)
    \/ \E i \in Indexes : StaleConvert(i)
    \/ \E i \in Indexes : StalePut(i)
    \/ Return
    \/ \E f \in Rewritable, c \in Contents \cup {Missing} : StaleRewrite(f, c)

SpecStale == InitBatch /\ [][NextStale]_vars

\* C28: every entry of the cache holds, under digest d, the markdown of a
\* conversion of content whose digest is d, also when a source file is
\* rewritten between its conversion and the put of the result; and an item
\* served from the cache holds the markdown of the file's content at the
\* time of the lookup.
C28_EntriesMatchTheirDigest ==
    /\ \A p \in CachePaths :
          (store[p].exists /\ JsonOk(store[p].data)) =>
              \E f \in Files, c \in Contents :
                  /\ Sha256(c) = from_dict(store[p].data).file_hash
                  /\ from_dict(store[p].data).markdown = Convert(f, c).result.markdown
    /\ \A k \in 1..Len(items) :
          (items[k].status = "CACHED" /\ items[k].source_path \notin touched) =>
              \E f \in Files :
                  ItemMarkdown(items[k]) =
                      Convert(f, content[items[k].source_path]).result.markdown

(***************************************************************************)
(* SpecProgress: progress_callback of _handle_batch_conversion, invoked    *)
(* from up to MaxWorkers threads for MaxItems items in all; every line of  *)
(* the callback that touches the lock, the counter or stderr is one step.  *)
(***************************************************************************)
Callers == 1..MaxWorkers
ReportedStatuses == {"RESUMED", "SUCCESS"}

\* a lock that never makes a thread wait
LockAlwaysFree(lock, t) == TRUE

\* threading.Lock: acquire returns when no thread holds the lock
LockFree(lock, t) == lock = 0

\* the threads between the acquire and the release of progress_lock
Inside == {t \in Callers : cb.pc[t] \in {"read", "write", "print", "release"}}

InitProgress ==
    /\ InitFs
    /\ InitApi
    /\ InitRaceIdle
    /\ InitBatchIdle
    /\ InitCliIdle
    /\ InitPoolIdle
    /\ InitOpIdle

ProgressFrame ==
    /\ UNCHANGED fsVars
    /\ UNCHANGED apiVars
    /\ UNCHANGED <<wpc, wfd, woff, nextIno, rpc, rgot>>
    /\ UNCHANGED batchVars
    /\ UNCHANGED cliVars
    /\ UNCHANGED poolVars
    /\ UNCHANGED opVars

\* lines 810-811 and on_progress(item_result): progress_callback(item)
CbCall(t, status) ==
    /\ cb.pc[t] = "idle"
    /\ cb.calls < MaxItems
    /\ cb' = [cb EXCEPT !.pc[t] = "acquire", !.arg[t] = status, !.calls = @ + 1]
    /\ ProgressFrame

\* line 667: with progress_lock
CbAcquire(t) ==
    /\ cb.pc[t] = "acquire"
    /\ LockFree(cb.lock, t)
    /\ cb' = [cb EXCEPT !.pc[t] = "read", !.lock = t]
    /\ ProgressFrame

\* line 668: processed_count[0] += 1, the load of the element
CbRead(t) ==
    /\ cb.pc[t] = "read"
    /\ cb' = [cb EXCEPT !.pc[t] = "write", !.tmp[t] = cb.count]
    /\ ProgressFrame

\* line 668: processed_count[0] += 1, the store of the sum
CbWrite(t) ==
    /\ cb.pc[t] = "write"
    /\ cb' = [cb EXCEPT !.pc[t] = "print", !.count = cb.tmp[t] + 1]
    /\ ProgressFrame

\* lines 701-705: print of the counter and the item, flushed
CbPrint(t) ==
    /\ cb.pc[t] = "print"
    /\ cb' = [cb EXCEPT !.pc[t] = "release",
                        !.out = Append(@, [n |-> cb.count, status |-> cb.arg[t]])]
    /\ ProgressFrame

\* the end of the with block: the lock is released
CbRelease(t) ==
    /\ cb.pc[t] = "release"
    /\ cb' = [cb EXCEPT !.pc[t] = "idle", !.lock = 0]
    /\ ProgressFrame

NextProgress ==
    \E t \in Callers :
        \/ \E status \in ReportedStatuses : CbCall(t, status)
        \/ CbAcquire(t)
        \/ CbRead(t)
        \/ CbWrite(t)
        \/ CbPrint(t)
        \/ CbRelease(t)

SpecProgress == InitProgress /\ [][NextProgress]_vars

\* C25: the increment of the counter and the print are one critical section:
\* at most one invocation is between the acquire and the release, the k-th
\* line printed shows k, and when every invocation has returned one line
\* was printed per reported item, resumed items included.
C25_CountAndPrintAtomic ==
    /\ Cardinality(Inside) <= 1
    /\ \A k \in 1..Len(cb.out) : cb.out[k].n = k
    /\ (\A t \in Callers : cb.pc[t] = "idle") => Len(cb.out) = cb.calls

\* all MaxItems items were reported, one of them a resumed one after a
\* converted one, and a thread is waiting for the lock another thread holds
C25_Witness ==
    /\ cb.calls = MaxItems
    /\ Len(cb.out) >= 2
    /\ \E j, k \in 1..Len(cb.out) :
          j < k /\ cb.out[j].status = "SUCCESS" /\ cb.out[k].status = "RESUMED"
    /\ \E t, u \in Callers : cb.pc[t] = "acquire" /\ cb.lock = u /\ u # t

=============================================================================
